---- MODULE Spec2Model ----
(***************************************************************************)
(* Model of rkllm-cli: the per-turn tool orchestration loop of             *)
(* ChatSession::run_chat_loop (src/src/chat.rs), the context budgeting of  *)
(* build_prompt_with_context_limit, and the stdio JSON-RPC transport of    *)
(* StdioTransport (src/src/mcp/transport/stdio.rs).                        *)
(***************************************************************************)
EXTENDS Integers, Sequences, FiniteSets, TLC

VARIABLES
    \* ---- ChatSession fields and process-wide settings (fixed at construction) ----
    tool_only,              \* ChatSession::tool_only
    confirm_writes,         \* ChatSession::confirm_writes
    mcp_client,             \* ChatSession::mcp_client: [present, order, tools]
    max_context_tokens,     \* MAX_CONTEXT_TOKENS (RKLLM_MAX_CONTEXT_TOKENS)
    context_reserved_tokens,\* CONTEXT_RESERVED_TOKENS (RKLLM_CONTEXT_RESERVED_TOKENS)
    world,                  \* environment of the session: [tool_info_bytes, output_bytes,
                            \*   user_bytes, disk]: sizes of the tool info text, of a tool
                            \*   output and of the user inputs typed, and the file paths
                            \*   the user inputs name
    \* ---- locals of one turn of run_chat_loop ----
    pc,                     \* "ready" | "run_initial" | "loop" | "run_followup"
    user_input,              \* byte length of the trimmed user input
    has_file_write_intent,  \* has_file_operation_intent(trimmed)
    turn_files,               \* input files loaded for this turn
    turn_errors,              \* input files that could not be loaded
    turn_targets,        \* byte lengths of the output target paths
    prompt_tokens,          \* estimate_tokens of the prompt handed to rkllm.run
    response,               \* model output in hand: [calls, blocks]
    tool_rounds,            \* tool_rounds
    seen_tool_calls,        \* seen_tool_calls
    tool_results,           \* tool_results of the current loop iteration
    \* ---- observation of the turn (what was dispatched / printed) ----
    round_log,              \* dispatches of the latest round, in order
    round_blocked,          \* calls skipped as blocked in the latest round, in order
    exec_calls,             \* per tool name: dispatches by process_tool_calls, this turn
    exec_fileops,           \* per tool name: dispatches by file output delegation, this turn
    runs,                   \* number of rkllm.run invocations in this turn
    ended,                  \* how the turn's inner loop ended ("none" while running)
    \* ---- ToolCallDetector (ChatSession::tool_detector) ----
    output_text,            \* the text given to detect: its blocks and plain parts, in order
    detected,               \* what detect returned on the text: [done, calls]
    \* ---- functions applied to one input (no session state) ----
    sample,                 \* build_tool_sample_block and detect on it: [pc, tool, block, calls]
    allocation,             \* truncate_files_to_budget on one file list:
                            \*   [pc, original_tokens, budget_tokens, allocations]
    cut,                    \* take_head_by_bytes / take_tail_by_bytes on one text:
                            \*   [pc, bytes, max_bytes, head_end, tail_start]
    conversion,             \* ToolResult::from on one tools/call result:
                            \*   [pc, content, is_error, tool_result]
    \* ---- McpClient::new over the configured servers ----
    registry,               \* [pc, config, index, servers, skipped, tried, returned]
    \* ---- StdioTransport (one transport, its child process, the tasks using it) ----
    next_id,                \* StdioTransport::next_id
    stdout_lock,            \* holder of the StdioTransport::stdout mutex, or "none"
    notified,               \* number of notification lines written to the child's stdin
    child_stdin,            \* the distinct messages written to the child's stdin, as written
    child_stdout,           \* lines the child has written and nobody has read yet
    child_open,             \* the child's stdout is open
    written,                \* number of lines the child has written
    task,                   \* per task: [pc, id, elapsed, result, got]
    warned,                 \* number of "unexpected request ID" warnings printed
    issued,                 \* the ids StdioTransport::next_id has returned, in order
    timed_out,              \* the ids of the requests that ended with the timeout
    eof_at,                 \* next_id when read_line first returned end of file; 0 before
    \* ---- ServerConnection (one configured server and its transport) ----
    conn,                   \* the connection: [pc, version_match, tools_cap, tools, warnings,
                            \*   result, matched, called, call]
    sent,                   \* the methods of the messages written to the server, in order
    \* ---- the callback of rkllm_run (llm.rs) ----
    stream                  \* one model run: [pc, chunks, next, context]

session_vars == <<tool_only, confirm_writes, mcp_client, max_context_tokens,
                  context_reserved_tokens, world>>
input_vars == <<user_input, has_file_write_intent, turn_files, turn_errors, turn_targets>>

detector_vars == <<output_text, detected>>

function_vars == <<sample, allocation, cut, conversion, registry, stream>>

chat_vars == <<session_vars, input_vars, detector_vars, function_vars, pc, prompt_tokens,
               response, tool_rounds, seen_tool_calls, tool_results,
               round_log, round_blocked, exec_calls, exec_fileops, runs, ended>>

transport_vars == <<next_id, stdout_lock, notified, child_stdin, child_stdout, child_open,
                    written, task, warned, issued, timed_out, eof_at>>

conn_vars == <<conn, sent>>

vars == <<chat_vars, transport_vars, conn_vars>>

\* the session, the turn and the detector
rest_chat_vars == <<session_vars, input_vars, detector_vars, pc, prompt_tokens, response,
                    tool_rounds, seen_tool_calls, tool_results, round_log, round_blocked,
                    exec_calls, exec_fileops, runs, ended>>

\* everything but the functions' variables
rest_vars == <<session_vars, input_vars, detector_vars, pc, prompt_tokens, response,
               tool_rounds, seen_tool_calls, tool_results, round_log, round_blocked,
               exec_calls, exec_fileops, runs, ended, transport_vars, conn_vars>>

-----------------------------------------------------------------------------
\* Bounds of the model.

\* tool calls detected in one model response
MaxCalls == 2
\* file output operations parsed from one model response
MaxBlocks == 1
\* blocks and plain parts of a text given to the detector
MaxSegments == 3
\* requests issued on the transport
MaxRequests == 3
\* lines the child writes to its stdout
MaxLines == 2
\* notifications sent on the transport
MaxNotifies == 1
\* files given to truncate_files_to_budget, tokens per file, and the budget
MaxBudgetFiles == 3
MaxFileTokens == 4
MaxBudgetTokens == 6
\* characters of a text given to take_head_by_bytes / take_tail_by_bytes,
\* bytes per character, and the byte budget
MaxChars == 4
MaxCharBytes == 3
MaxCutBytes == 6
\* content items of a tools/call result
MaxContent == 3
\* servers of an MCP configuration
MaxServers == 2
\* parts of a block's body
MaxBodyParts == 2
\* runs of one-byte and of three-byte characters in a file, and its allocation
MaxRun == 10
MaxWideRun == 5
MaxLimit == 8

\* pieces (a tag or a character) a model output is put together from
MaxPieces == 4

-----------------------------------------------------------------------------
\* Faulty variants of decisions of the code. Each property below is also
\* checked with one decision replaced by its variant, to see that the
\* property depends on the decision.

\* process_tool_calls without the dedup by name
NeverRepeat(seen, name) == FALSE
\* process_tool_calls with a WriteOnly allowance that blocks write_file too
BlocksEveryName(allowance, name) == allowance = "WriteOnly"
\* process_tool_calls without the allowance check
AllowsEvery(allowance, name) == FALSE
\* run_chat_loop keeping the allowance All in every round
AlwaysAll(rounds) == "All"
\* run_chat_loop ignoring blocked_repeat
IgnoresBlocked(blocked_repeat) == FALSE
\* run_chat_loop going on after a round without tool results
IgnoresNoResults(results) == FALSE
\* build_prompt_with_context_limit without the final measurement
NeverExceeds(tokens, max_tokens) == FALSE
\* read_response returning whatever response it reads
AnyIdMatches(response_id, expected_id) == TRUE
\* read_response taking the response to an earlier request for its own
AcceptsOlderId(response_id, expected_id) == response_id \in 1..expected_id
\* StdioTransport::next_id without the increment
ReusedId(id) == id
\* StdioTransport::request returning a response with an error member
ErrorIsSuccess(line) == "ok"
\* ServerConnection::new listing the tools of every server
ListsAlways(tools_cap) == TRUE
\* ServerConnection::new refusing a server with another protocol version
RejectsOtherVersion(version_match) == version_match
\* process_tool_calls sending write_file to the MCP client
NoLocalWrite(name) == IF name = "read_file" THEN "read_file" ELSE "none"
\* process_tool_calls taking an Err of the registry for a success
ErrCountsAsSuccess(result) == result # "fail"
\* read_response reading on after end of file
HandsOutNothing(allocations, order, k, remainder) == allocations

CutsAtTarget(bytes, start_target, idx) == start_target

SuccessWhenFlagged(is_error) == is_error # "absent"

StopsAtFirstFailure(index, n) == n + 1

KeepsLineBreaks(chars) == chars

WritesInToolOnly(tonly, confirm, env) ==
    [result |-> "ok", prompted |-> FALSE, wrote |-> TRUE, exists |-> env.exists,
     answer |-> "none"]

AsksOnlyWithFlag(confirm, exists) == confirm

AsksFirstServer(client, name) == IF Len(client.order) = 0 THEN "none" ELSE client.order[1]

SilentOnCursor(next_cursor) == FALSE

KeepsWholeBudget(max_bytes) == max_bytes

KeepsSeenNames(previous) == previous

RepeatsWriteFile(seen, name) == name \in seen /\ name # "write_file"

RetriesAtEof(t) == [task EXCEPT ![t].pc = "lock_stdout"]

-----------------------------------------------------------------------------
\* Tool names.

\* names a model response can carry in a tool call
CallNames == {"read_file", "write_file", "search_docs"}

\* names of the configured MCP servers
ServerNames == {"s1", "s2"}

\* the McpClient values a session can be constructed with: the servers in the
\* iteration order of McpClient::servers, and each server's cached tool list
McpClients ==
    { [present |-> FALSE, order |-> <<>>, tools |-> [s \in ServerNames |-> <<>>]],
      [present |-> TRUE,  order |-> <<"s1", "s2">>,
       tools |-> [s1 |-> <<"search_docs">>, s2 |-> <<"fs_write_file">>]],
      [present |-> TRUE,  order |-> <<"s2", "s1">>,
       tools |-> [s1 |-> <<"search_docs", "write_file">>,
                  s2 |-> <<"save_note", "search_docs">>]],
      [present |-> TRUE,  order |-> <<"s2">>,
       tools |-> [s1 |-> <<>>, s2 |-> <<"save_note">>]] }

\* every tool name of the model
ToolNames == CallNames \cup {"fs_write_file", "save_note"}

\* whether a tool's input schema has both a "path" and a "content" property
HasPathAndContent(name) == name \in {"fs_write_file", "write_file", "save_note"}

\* all sequences over S of length 0..n
SeqsUpTo(S, n) == UNION { [1..k -> S] : k \in 0..n }

\* the model responses: the detected tool calls, in order, and the number of
\* file output operations left after parsing and filtering
Responses == [calls : SeqsUpTo(CallNames, MaxCalls), blocks : 0..MaxBlocks]

NoResponse == [calls |-> <<>>, blocks |-> 0]

-----------------------------------------------------------------------------
\* McpClient (registry).

RECURSIVE FlattenTools(_, _, _)
FlattenTools(client, i, acc) ==
    IF i > Len(client.order) THEN acc
    ELSE FlattenTools(client, i + 1, acc \o client.tools[client.order[i]])

\* McpClient::list_all_tools: the tools of all servers, in iteration order
list_all_tools(client) == FlattenTools(client, 1, <<>>)

InSeq(x, sq) == \E i \in 1..Len(sq) : sq[i] = x

RECURSIVE FindServer(_, _, _)
FindServer(client, name, i) ==
    IF i > Len(client.order) THEN "none"
    ELSE IF InSeq(name, client.tools[client.order[i]]) THEN client.order[i]
    ELSE FindServer(client, name, i + 1)

\* McpClient::find_server_for_tool: the first server, in iteration order,
\* whose cached tool list holds the name; "none" stands for None
find_server_for_tool(client, name) == FindServer(client, name, 1)

\* rank of a tool as a write tool in select_write_tool_name; NoRank stands for None
NoRank == 3
WriteRank(name) ==
    IF name = "write_file" THEN 0
    ELSE IF name = "fs_write_file" THEN 1
    ELSE IF HasPathAndContent(name) THEN 2
    ELSE NoRank

RECURSIVE SelectWrite(_, _, _)
SelectWrite(tools, i, best) ==
    IF i > Len(tools) THEN best
    ELSE LET r == WriteRank(tools[i]) IN
         IF r < NoRank /\ (best.rank = NoRank \/ r < best.rank)
         THEN SelectWrite(tools, i + 1, [rank |-> r, name |-> tools[i]])
         ELSE SelectWrite(tools, i + 1, best)

\* ChatSession::select_write_tool_name: the first tool of the best rank;
\* "none" stands for None
select_write_tool_name(tools) ==
    SelectWrite(tools, 1, [rank |-> NoRank, name |-> "none"]).name

-----------------------------------------------------------------------------
\* Environment of one executed call: what the file system, the user at the
\* confirmation prompt and the MCP server answer.

WriteEnvs == [kind : {"noargs", "declined", "io_err", "bad", "good"}, exists : BOOLEAN]
PlainEnvs == [kind : {"bad", "good", "err"}, exists : {FALSE}]

EnvFor(name) == IF name = "write_file" THEN WriteEnvs ELSE PlainEnvs

\* the confirmation before a local write: `if self.confirm_writes { confirm_write }
\* else if exists && !confirm_overwrite`: asked with --confirm-writes, and
\* for a file that exists
NeedsConfirm(confirm, exists) == confirm \/ exists

\* prompt_confirm: `Ok(input.trim().eq_ignore_ascii_case("y"))`, or the Err
\* of reading the answer; "none" when nothing is asked
Answer(prompted, env) ==
    IF ~prompted THEN "none"
    ELSE IF env.kind = "io_err" THEN "err"
    ELSE IF env.kind = "declined" THEN "n"
    ELSE "y"

\* ChatSession::handle_write_file_tool_call
\* result: "ok" (success=true) | "fail" (success=false) | "err" (Err propagated by ?)
handle_write_file_tool_call(tonly, confirm, env) ==
    IF tonly
    THEN [result |-> "fail", prompted |-> FALSE, wrote |-> FALSE, exists |-> FALSE,
          answer |-> "none"]
    ELSE IF env.kind = "noargs"
    THEN [result |-> "fail", prompted |-> FALSE, wrote |-> FALSE, exists |-> FALSE,
          answer |-> "none"]
    ELSE LET prompted == NeedsConfirm(confirm, env.exists)
             answer == Answer(prompted, env)
         IN
         IF prompted /\ env.kind = "io_err"
         THEN [result |-> "err", prompted |-> TRUE, wrote |-> FALSE, exists |-> env.exists,
               answer |-> answer]
         ELSE IF prompted /\ env.kind = "declined"
         THEN [result |-> "fail", prompted |-> TRUE, wrote |-> FALSE, exists |-> env.exists,
               answer |-> answer]
         ELSE IF env.kind = "bad"
         THEN [result |-> "fail", prompted |-> prompted, wrote |-> FALSE,
               exists |-> env.exists, answer |-> answer]
         ELSE [result |-> "ok", prompted |-> prompted, wrote |-> TRUE, exists |-> env.exists,
               answer |-> answer]

\* ChatSession::handle_read_file_tool_call: success of the ToolResult
handle_read_file_tool_call(env) == env.kind = "good"

\* McpClient::call_tool: the server the tools/call request goes to ("none" when
\* no cached tool list holds the name: no request is sent) and the result seen
\* by the caller: "ok" (success=true) | "fail" (success=false) | "err" (Err)
call_tool(client, name, env) ==
    LET server == find_server_for_tool(client, name) IN
    IF server = "none" THEN [server |-> "none", result |-> "err"]
    ELSE [server |-> server,
          result |-> IF env.kind = "good" THEN "ok"
                     ELSE IF env.kind = "bad" THEN "fail" ELSE "err"]

-----------------------------------------------------------------------------
\* ChatSession::process_tool_calls

\* run_chat_loop: the allowance of a round
AllowanceFor(rounds) == IF rounds = 0 THEN "All" ELSE "WriteOnly"

\* process_tool_calls: a call the allowance blocks
BlockedByAllowance(allowance, name) ==
    allowance = "WriteOnly" /\ name # "write_file"

\* process_tool_calls: a call the dedup blocks
BlockedAsRepeat(seen, name) == name \in seen

\* process_tool_calls: `match call.name.as_str()`: the local handler of a
\* name; "none" stands for the arm that goes to the MCP client
LocalHandler(name) ==
    IF name = "read_file" THEN "read_file"
    ELSE IF name = "write_file" THEN "write_file"
    ELSE "none"

\* process_tool_calls: `match client.call_tool(..).await`: Ok(result) keeps the
\* success flag of the result, Err(e) becomes a result with success=false
RegistrySuccess(result) == result = "ok"

\* state of the loop over the detected calls
CallLoopInit(seen) ==
    [results |-> <<>>, blocked_repeat |-> FALSE, seen |-> seen,
     log |-> <<>>, blocked |-> <<>>, err |-> FALSE]

\* one iteration of `for call in tool_calls`
CallStep(st, name, env, round, allowance, tonly, confirm, client) ==
    IF BlockedByAllowance(allowance, name)
    THEN [st EXCEPT !.blocked_repeat = TRUE,
                    !.blocked = Append(@, [round |-> round, name |-> name, why |-> "allowance"])]
    ELSE IF BlockedAsRepeat(st.seen, name)
    THEN [st EXCEPT !.blocked_repeat = TRUE,
                    !.blocked = Append(@, [round |-> round, name |-> name, why |-> "repeat"])]
    ELSE LET st1 == [st EXCEPT !.seen = @ \cup {name}] IN
         IF LocalHandler(name) = "read_file"
         THEN [st1 EXCEPT
                 !.results = Append(@, [name |-> name, success |-> handle_read_file_tool_call(env)]),
                 !.log = Append(@, [round |-> round, name |-> name, route |-> "read_file",
                                    server |-> "none", wrote |-> FALSE, prompted |-> FALSE,
                                    exists |-> FALSE, answer |-> "none",
                                    outcome |-> IF handle_read_file_tool_call(env)
                                                THEN "ok" ELSE "fail"])]
         ELSE IF LocalHandler(name) = "write_file"
         THEN LET w == handle_write_file_tool_call(tonly, confirm, env)
                  ev == [round |-> round, name |-> name, route |-> "write_file",
                         server |-> "none", wrote |-> w.wrote, prompted |-> w.prompted,
                         exists |-> w.exists, answer |-> w.answer, outcome |-> w.result]
              IN IF w.result = "err"
                 THEN [st1 EXCEPT !.err = TRUE, !.log = Append(@, ev)]
                 ELSE [st1 EXCEPT
                         !.results = Append(@, [name |-> name, success |-> (w.result = "ok")]),
                         !.log = Append(@, ev)]
         ELSE IF client.present
         THEN LET c == call_tool(client, name, env) IN
              [st1 EXCEPT
                 !.results = Append(@, [name |-> name, success |-> RegistrySuccess(c.result)]),
                 !.log = Append(@, [round |-> round, name |-> name, route |-> "registry",
                                    server |-> c.server, wrote |-> FALSE, prompted |-> FALSE,
                                    exists |-> FALSE, answer |-> "none",
                                    outcome |-> c.result])]
         ELSE [st1 EXCEPT
                 !.results = Append(@, [name |-> name, success |-> FALSE])]

RECURSIVE CallLoop(_, _, _, _, _, _, _, _, _)
CallLoop(st, calls, envs, i, round, allowance, tonly, confirm, client) ==
    IF i > Len(calls) \/ st.err THEN st
    ELSE CallLoop(CallStep(st, calls[i], envs[calls[i]], round, allowance, tonly, confirm, client),
                  calls, envs, i + 1, round, allowance, tonly, confirm, client)

\* process_tool_calls(output, seen_tool_calls, allowance): the final loop state;
\* the caller gets Ok((results, blocked_repeat)), or Err when err is set
process_tool_calls(calls, envs, seen, round, allowance, tonly, confirm, client) ==
    CallLoop(CallLoopInit(seen), calls, envs, 1, round, allowance, tonly, confirm, client)

-----------------------------------------------------------------------------
\* File output operations of a response.

FileOpEnvs == [kind : {"declined", "io_err", "bad", "good"}, exists : BOOLEAN]

RECURSIVE ViaToolsLoop(_, _, _, _, _, _)
ViaToolsLoop(log, client, write_tool_name, n, i, round) ==
    IF i > n THEN log
    ELSE ViaToolsLoop(
            Append(log, [round |-> round, name |-> write_tool_name, route |-> "fileop_registry",
                         server |-> find_server_for_tool(client, write_tool_name),
                         wrote |-> FALSE, prompted |-> FALSE, exists |-> FALSE,
                         answer |-> "none", outcome |-> "none"]),
            client, write_tool_name, n, i + 1, round)

\* ChatSession::process_file_operations_via_tools: the registry calls made for
\* the n file operations of a response (tool-only mode)
process_file_operations_via_tools(client, n, round) ==
    IF ~client.present \/ n = 0 THEN <<>>
    ELSE LET write_tool_name == select_write_tool_name(list_all_tools(client)) IN
         IF write_tool_name = "none" THEN <<>>
         ELSE ViaToolsLoop(<<>>, client, write_tool_name, n, 1, round)

RECURSIVE LocalOpsLoop(_, _, _, _, _, _)
LocalOpsLoop(log, confirm, benvs, n, i, round) ==
    IF i > n THEN log
    ELSE LET env == benvs[i]
             prompted == NeedsConfirm(confirm, env.exists)
             answer == Answer(prompted, env)
         IN IF prompted /\ env.kind = "io_err"
            THEN Append(log, [round |-> round, name |-> "none", route |-> "fileop_local",
                              server |-> "none", wrote |-> FALSE, prompted |-> TRUE,
                              exists |-> env.exists, answer |-> answer, outcome |-> "none"])
            ELSE LET wrote == ~(prompted /\ env.kind = "declined") /\ env.kind # "bad" IN
                 LocalOpsLoop(
                    Append(log, [round |-> round, name |-> "none", route |-> "fileop_local",
                                 server |-> "none", wrote |-> wrote, prompted |-> prompted,
                                 exists |-> env.exists, answer |-> answer,
                                 outcome |-> "none"]),
                    confirm, benvs, n, i + 1, round)

\* ChatSession::process_file_operations: the local handling of the n file
\* operations of a response
process_file_operations(confirm, benvs, n, round) ==
    LocalOpsLoop(<<>>, confirm, benvs, n, 1, round)

-----------------------------------------------------------------------------
\* Context budgeting (chat.rs) and prompt assembly (prompt_builder.rs).
\* A text is the sequence of the UTF-8 byte widths of its characters.

RECURSIVE SumSeq(_, _)
SumSeq(sq, i) == IF i > Len(sq) THEN 0 ELSE sq[i] + SumSeq(sq, i + 1)

\* str::len: the byte length of a text
Bytes(text) == SumSeq(text, 1)

\* a text of n one-byte characters / of n three-byte characters
Ascii(n) == [i \in 1..n |-> 1]
Wide(n) == [i \in 1..n |-> 3]

\* estimate_tokens on a text of the given byte length
estimate_tokens(bytes) == IF bytes = 0 THEN 0 ELSE (bytes + 2) \div 3

RECURSIVE HeadEnd(_, _, _, _, _)
\* the loop of take_head_by_bytes: i is the character, idx its byte offset,
\* end the number of characters kept so far
HeadEnd(text, max_bytes, i, idx, end) ==
    IF i > Len(text) THEN end
    ELSE LET next == idx + text[i] IN
         IF next > max_bytes THEN end
         ELSE HeadEnd(text, max_bytes, i + 1, next, i)

\* take_head_by_bytes
take_head_by_bytes(text, max_bytes) ==
    IF max_bytes = 0 \/ Len(text) = 0 THEN <<>>
    ELSE IF Bytes(text) <= max_bytes THEN text
    ELSE SubSeq(text, 1, HeadEnd(text, max_bytes, 1, 0, 0))

RECURSIVE TailStart(_, _, _, _)
\* the loop of take_tail_by_bytes: the first character whose byte offset idx
\* is at least start_target; Len(text) + 1 when there is none
TailStart(text, start_target, i, idx) ==
    IF i > Len(text) THEN Len(text) + 1
    ELSE IF idx >= start_target THEN i
    ELSE TailStart(text, start_target, i + 1, idx + text[i])

\* take_tail_by_bytes
take_tail_by_bytes(text, max_bytes) ==
    IF max_bytes = 0 \/ Len(text) = 0 THEN <<>>
    ELSE IF Bytes(text) <= max_bytes THEN text
    ELSE SubSeq(text, TailStart(text, Bytes(text) - max_bytes, 1, 0), Len(text))

\* byte length of "\n[...truncated...]\n"
MarkerBytes == 19

Max(a, b) == IF a >= b THEN a ELSE b
\* usize::saturating_sub
SatSub(a, b) == IF a >= b THEN a - b ELSE 0

\* truncate_file_content: `max_bytes.saturating_sub(marker_bytes)`
keep_bytes_of(max_bytes) == SatSub(max_bytes, MarkerBytes)

\* truncate_file_content: the kept head and tail, whether the marker joins
\* them, the kept token estimate and the truncated flag
truncate_file_content(content, limit_tokens) ==
    IF Len(content) = 0 \/ limit_tokens = 0
    THEN [head |-> <<>>, marker |-> FALSE, tail |-> <<>>, kept_tokens |-> 0,
          truncated |-> Len(content) # 0]
    ELSE LET max_bytes == Max(limit_tokens * 3, 1) IN
         IF Bytes(content) <= max_bytes
         THEN [head |-> content, marker |-> FALSE, tail |-> <<>>,
               kept_tokens |-> estimate_tokens(Bytes(content)), truncated |-> FALSE]
         ELSE LET keep_bytes == keep_bytes_of(max_bytes) IN
              IF keep_bytes = 0
              THEN LET head == take_head_by_bytes(content, max_bytes) IN
                   [head |-> head, marker |-> FALSE, tail |-> <<>>,
                    kept_tokens |-> estimate_tokens(Bytes(head)), truncated |-> TRUE]
              ELSE LET head_bytes == (keep_bytes * 2) \div 3
                       tail_bytes == SatSub(keep_bytes, head_bytes)
                       head == take_head_by_bytes(content, head_bytes)
                       tail == IF tail_bytes > 0 THEN take_tail_by_bytes(content, tail_bytes)
                               ELSE <<>>
                   IN [head |-> head, marker |-> TRUE, tail |-> tail,
                       kept_tokens |-> estimate_tokens(Bytes(head) + MarkerBytes + Bytes(tail)),
                       truncated |-> TRUE]

\* byte length of the text truncate_file_content returns
TruncatedBytes(t) == Bytes(t.head) + (IF t.marker THEN MarkerBytes ELSE 0) + Bytes(t.tail)

\* original_tokens of truncate_files_to_budget
OriginalTokens(files) == [i \in 1..Len(files) |-> estimate_tokens(Bytes(files[i].content))]

\* the proportional floor shares of truncate_files_to_budget
FloorShares(original_tokens, budget_tokens) ==
    LET total_tokens == SumSeq(original_tokens, 1) IN
    [i \in 1..Len(original_tokens) |->
        IF total_tokens > 0 THEN (budget_tokens * original_tokens[i]) \div total_tokens ELSE 0]

RECURSIVE SortedOrder(_, _, _)
\* order.sort_by_key(|&i| Reverse(original_tokens[i])): a stable sort, so of
\* the indices left the first one holding the most tokens comes next
SortedOrder(original_tokens, left, acc) ==
    IF left = {} THEN acc
    ELSE LET best == CHOOSE i \in left :
                        \A j \in left : \/ original_tokens[i] > original_tokens[j]
                                        \/ (original_tokens[i] = original_tokens[j] /\ i <= j)
         IN SortedOrder(original_tokens, left \ {best}, Append(acc, best))

RECURSIVE HandOut(_, _, _, _)
\* the loop handing the remainder out, one token per file in `order`
HandOut(allocations, order, k, remainder) ==
    IF k > Len(order) \/ remainder = 0 THEN allocations
    ELSE HandOut([allocations EXCEPT ![order[k]] = @ + 1], order, k + 1, remainder - 1)

\* the allocations of truncate_files_to_budget (the case total_tokens > budget_tokens > 0)
Allocations(original_tokens, budget_tokens) ==
    LET shares == FloorShares(original_tokens, budget_tokens)
        remainder == SatSub(budget_tokens, SumSeq(shares, 1))
        order == SortedOrder(original_tokens, 1..Len(original_tokens), <<>>)
    IN HandOut(shares, order, 1, remainder)

RECURSIVE TrimLoop(_, _, _, _)
TrimLoop(files, allocations, i, acc) ==
    IF i > Len(files) THEN acc
    ELSE IF allocations[i] = 0 THEN TrimLoop(files, allocations, i + 1, acc)
    ELSE LET t == truncate_file_content(files[i].content, allocations[i]) IN
         TrimLoop(files, allocations, i + 1,
                  Append(acc, [path_bytes |-> files[i].path_bytes, bytes |-> TruncatedBytes(t)]))

\* truncate_files_to_budget: path and content byte length of each file kept
truncate_files_to_budget(files, budget_tokens) ==
    LET original_tokens == OriginalTokens(files) IN
    IF Len(files) = 0 THEN <<>>
    ELSE IF budget_tokens = 0 THEN <<>>
    ELSE IF SumSeq(original_tokens, 1) <= budget_tokens
    THEN [i \in 1..Len(files) |->
            [path_bytes |-> files[i].path_bytes, bytes |-> Bytes(files[i].content)]]
    ELSE TrimLoop(files, Allocations(original_tokens, budget_tokens), 1, <<>>)

\* byte lengths of the constant parts of build_chat_prompt
SystemInstructionsBytes == 1347
FileOperationInstructionsBytes == 761
ToolOnlyInstructionsBytes == 240
SystemWrapBytes == 21
ToolsWrapBytes == 19
FilesWrapBytes == 18
FileEntryBytes == 25
FileErrorEntryBytes == 37
OutputTargetsWrapBytes == 36
TargetEntryBytes == 18
ToolResultsWrapBytes == 32
ToolResultEntryBytes == 50
UserInputWrapBytes == 27


FileBytes(f) == FileEntryBytes + f.path_bytes + f.bytes
ErrorBytes(e) == FileErrorEntryBytes + e.path_bytes + e.msg_bytes
TargetBytes(t) == TargetEntryBytes + t
\* "true" / "false"
ResultBytes(r) == ToolResultEntryBytes + r.name_bytes + (IF r.success THEN 4 ELSE 5) + r.output_bytes

\* build_chat_prompt: the byte length of the prompt; tool_info_bytes is the
\* length of the trimmed tool info, 0 when it is None or blank
build_chat_prompt(user_bytes, files, errors, tool_info_bytes, output_targets, has_file_op_intent, file_writes_enabled, results) ==
      SystemWrapBytes + SystemInstructionsBytes
    + (IF ~file_writes_enabled THEN ToolOnlyInstructionsBytes + 1
       ELSE IF has_file_op_intent THEN FileOperationInstructionsBytes + 1 ELSE 0)
    + (IF tool_info_bytes > 0 THEN ToolsWrapBytes + tool_info_bytes ELSE 0)
    + (IF Len(files) > 0 \/ Len(errors) > 0
       THEN FilesWrapBytes + SumSeq([i \in 1..Len(files) |-> FileBytes(files[i])], 1)
            + SumSeq([i \in 1..Len(errors) |-> ErrorBytes(errors[i])], 1)
       ELSE 0)
    + (IF file_writes_enabled /\ Len(output_targets) > 0
       THEN OutputTargetsWrapBytes
            + SumSeq([i \in 1..Len(output_targets) |-> TargetBytes(output_targets[i])], 1)
       ELSE 0)
    + (IF Len(results) > 0
       THEN ToolResultsWrapBytes
            + SumSeq([i \in 1..Len(results) |-> ResultBytes(results[i])], 1)
       ELSE 0)
    + UserInputWrapBytes + user_bytes

\* build_prompt_with_context_limit: the final measurement of the assembled prompt
ExceedsMax(tokens, max_tokens) == tokens > max_tokens

\* build_prompt_with_context_limit: the token estimate of the prompt returned
\* (the base prompt on overflow) and the overflow flag
build_prompt_with_context_limit(max_tokens, reserved, user_bytes, files, errors, tool_info_bytes, output_targets, has_file_op_intent, file_writes_enabled, results) ==
    LET base_prompt == build_chat_prompt(user_bytes, <<>>, errors, tool_info_bytes,
                                         output_targets, has_file_op_intent,
                                         file_writes_enabled, results)
        base_tokens == estimate_tokens(base_prompt)
    IN IF base_tokens >= max_tokens
       THEN [tokens |-> base_tokens, overflow |-> TRUE]
       ELSE LET budget_tokens == SatSub(max_tokens, base_tokens + reserved)
                trimmed_files == truncate_files_to_budget(files, budget_tokens)
                prompt == build_chat_prompt(user_bytes, trimmed_files, errors, tool_info_bytes,
                                            output_targets, has_file_op_intent,
                                            file_writes_enabled, results)
                overflow == ExceedsMax(estimate_tokens(prompt), max_tokens)
            IN IF overflow
               THEN [tokens |-> base_tokens, overflow |-> TRUE]
               ELSE [tokens |-> estimate_tokens(prompt), overflow |-> FALSE]

-----------------------------------------------------------------------------
\* ToolCallDetector (tool_detector.rs). A text is the sequence of its parts:
\* plain text; a [TOOL_CALL] {..} [END_TOOL_CALL] block whose JSON object has a
\* name and arguments ("json"); such a block whose body is in braces but is
\* not such an object ("json_other"); such a block whose body opens a brace
\* and does not end with one ("json_unclosed"); a
\* <tool_call name="..">..</tool_call> block ("xml"); and a <tool_call name="..">
\* tag without its closing tag ("xml_unclosed").

Segments ==
    [kind : {"json", "xml", "xml_unclosed"}, name : {"read_file", "write_file"}]
    \cup [kind : {"plain", "json_other", "json_unclosed"}, name : {"none"}]

RECURSIVE NextClose(_, _, _)
\* the first part from i on that ends as a part of one of the kinds does; 0
\* when there is none
NextClose(segments, i, kinds) ==
    IF i > Len(segments) THEN 0
    ELSE IF segments[i].kind \in kinds THEN i
    ELSE NextClose(segments, i + 1, kinds)

RECURSIVE JsonScan(_, _, _)
\* json_pattern.captures_iter: `\[TOOL_CALL\]\s*(\{.*?\})\s*\[END_TOOL_CALL\]`
\* with (?s). A match starts at an opening marker followed by a brace and runs
\* to the first closing brace that the end marker follows, which for a body
\* that does not end with a brace is the end of a later block; a captured body
\* that is not an object with a name and arguments pushes nothing.
JsonScan(segments, i, acc) ==
    IF i > Len(segments) THEN acc
    ELSE IF segments[i].kind = "json"
    THEN JsonScan(segments, i + 1, Append(acc, segments[i].name))
    ELSE IF segments[i].kind = "json_unclosed"
    THEN LET j == NextClose(segments, i + 1, {"json", "json_other"}) IN
         IF j = 0 THEN JsonScan(segments, i + 1, acc)
         ELSE JsonScan(segments, j + 1, acc)
    ELSE JsonScan(segments, i + 1, acc)

RECURSIVE XmlScan(_, _, _)
\* xml_pattern.captures_iter: `<tool_call\s+name="([^"]+)"\s*>([\s\S]*?)</tool_call>`.
\* A match starts at an opening tag and runs to the first closing tag after
\* it; it pushes a ToolCall with the name of the opening tag.
XmlScan(segments, i, acc) ==
    IF i > Len(segments) THEN acc
    ELSE IF segments[i].kind = "xml"
    THEN XmlScan(segments, i + 1, Append(acc, segments[i].name))
    ELSE IF segments[i].kind = "xml_unclosed"
    THEN LET j == NextClose(segments, i + 1, {"xml"}) IN
         IF j = 0 THEN XmlScan(segments, i + 1, acc)
         ELSE XmlScan(segments, j + 1, Append(acc, segments[i].name))
    ELSE XmlScan(segments, i + 1, acc)

\* ToolCallDetector::detect_json_style
detect_json_style(segments) == JsonScan(segments, 1, <<>>)

\* ToolCallDetector::detect_xml_style
detect_xml_style(segments) == XmlScan(segments, 1, <<>>)

\* ToolCallDetector::detect: the names of the ToolCalls returned
detect(segments) == detect_json_style(segments) \o detect_xml_style(segments)

\* no text given to the detector yet
DetectorInit ==
    /\ output_text = <<>>
    /\ detected = [done |-> FALSE, calls |-> <<>>]

\* the model's output grows by one part
Emit ==
    /\ ~detected.done
    /\ Len(output_text) < MaxSegments
    /\ \E seg \in Segments : output_text' = Append(output_text, seg)
    /\ UNCHANGED <<detected, session_vars, input_vars, pc, prompt_tokens, response,
                   tool_rounds, seen_tool_calls, tool_results, round_log, round_blocked,
                   exec_calls, exec_fileops, runs, ended, transport_vars, conn_vars,
                   function_vars>>

\* process_tool_calls: `self.tool_detector.detect(output)`
Detect ==
    /\ ~detected.done
    /\ detected' = [done |-> TRUE, calls |-> detect(output_text)]
    /\ UNCHANGED <<output_text, session_vars, input_vars, pc, prompt_tokens, response,
                   tool_rounds, seen_tool_calls, tool_results, round_log, round_blocked,
                   exec_calls, exec_fileops, runs, ended, transport_vars, conn_vars,
                   function_vars>>

DetectorTypeOK ==
    /\ \A i \in 1..Len(output_text) : output_text[i] \in Segments
    /\ detected.done \in BOOLEAN
    /\ \A i \in 1..Len(detected.calls) : detected.calls[i] \in {"read_file", "write_file"}

-----------------------------------------------------------------------------
\* The sample tool-call block of the prompt (ChatSession::build_tool_sample_block)
\* and what the detector recovers from it.

\* names of the properties and required keys of the tools' input schemas
SchemaKeys == {"path", "content", "mode"}

\* Tool as sent by a server in tools/list: name, inputSchema.properties and
\* inputSchema.required; an absent `properties` or `required` is the empty set
\* (`unwrap_or_default`, `if let Some(properties)`)
SampleTools == [name : {"read_file", "write_file"}, properties : SUBSET SchemaKeys,
                required : SUBSET SchemaKeys]

\* build_sample_arguments: the keys of the sample object
build_sample_arguments(tool) ==
    LET keys == IF tool.required = {} THEN tool.properties
                ELSE {key \in tool.properties : key \in tool.required}
    IN IF keys = {} THEN {"example"} ELSE keys

\* The text between the tags or markers of a block is a sequence of parts: the
\* text of a JSON object with the given member keys, each member's value the
\* string "value" ("object"); an `<argument name="k">v</argument>` element
\* ("argument"); a `"k": v` member of the object of a [TOOL_CALL] body
\* ("member"); or any other text ("text").
ArgNames == {"path", "content"}

\* the text v of an argument element or of a member: a JSON number, a JSON
\* string, text that is not JSON, the text of a JSON object, a tool's name as
\* a JSON string
ValueTexts == {"5", "\"a\"", "a b", "{\"path\":\"a\"}", "\"read_file\""}

ObjectPart(keys) == [kind |-> "object", name |-> "none", value |-> "none", members |-> keys]

ArgumentParts == [kind : {"argument"}, name : ArgNames, value : ValueTexts, members : {<<>>}]

MemberParts == [kind : {"member"}, name : {"name", "arguments"}, value : ValueTexts, members : {<<>>}]

TextPart == [kind |-> "text", name |-> "none", value |-> "x", members |-> <<>>]

\* serde_json::Value
JsonString(chars) == [type |-> "string", text |-> chars]

JsonObject(map) == [type |-> "object", map |-> map]

\* an object whose members are the keys, each with the string "value"
ObjectOf(keys) == JsonObject([key \in keys |-> JsonString("value")])

\* serde_json::from_str::<Value> of one of the value texts
from_str_value(chars) ==
    CASE chars = "5" -> [ok |-> TRUE, value |-> [type |-> "number", text |-> "5"]]
      [] chars = "\"a\"" -> [ok |-> TRUE, value |-> JsonString("a")]
      [] chars = "\"read_file\"" -> [ok |-> TRUE, value |-> JsonString("read_file")]
      [] chars = "{\"path\":\"a\"}" -> [ok |-> TRUE, value |-> JsonObject([path |-> JsonString("a")])]
      [] OTHER -> [ok |-> FALSE, value |-> JsonString("")]

\* the place of a key in the order of str
KeyRank(key) ==
    CASE key = "content" -> 1 [] key = "example" -> 2 [] key = "mode" -> 3 [] OTHER -> 4

RECURSIVE SortedKeys(_)
\* `keys.sort()`
SortedKeys(keys) ==
    IF keys = {} THEN <<>>
    ELSE LET key == CHOOSE k \in keys : \A other \in keys : KeyRank(k) <= KeyRank(other)
         IN <<key>> \o SortedKeys(keys \ {key})

\* serde_json::to_string_pretty of an object: the text of the object
to_string_pretty(object) == <<ObjectPart(SortedKeys(object))>>

\* serde_json::from_str::<Value> of a whole body: Ok for a body that is the
\* text of one JSON object and nothing else
from_str(body) ==
    IF Len(body) = 1 /\ body[1].kind = "object"
    THEN [ok |-> TRUE, value |-> ObjectOf({body[1].members[i] : i \in 1..Len(body[1].members)})]
    ELSE [ok |-> FALSE, value |-> JsonString("")]

\* build_tool_sample_block: `<tool_call name="{}">\n{}\n</tool_call>\n`
build_tool_sample_block(tool) ==
    [kind |-> "xml", name |-> tool.name,
     body |-> to_string_pretty(build_sample_arguments(tool))]

\* `args.insert(arg_name, value)` on a serde_json::Map
Insert(args, name, value) ==
    [key \in (DOMAIN args) \cup {name} |-> IF key = name THEN value ELSE args[key]]

RECURSIVE ArgLoop(_, _, _)
\* detect_xml_style: `for arg_cap in arg_regex.captures_iter(args_str)`; the
\* pattern matches the argument elements of the body and nothing else
ArgLoop(body, i, args) ==
    IF i > Len(body) THEN args
    ELSE IF body[i].kind = "argument"
    THEN LET parsed == from_str_value(body[i].value)
             value == IF parsed.ok THEN parsed.value ELSE JsonString(body[i].value)
         IN ArgLoop(body, i + 1, Insert(args, body[i].name, value))
    ELSE ArgLoop(body, i + 1, args)

\* detect_xml_style on one match: `arguments: Value::Object(args)`
xml_arguments(body) == JsonObject(ArgLoop(body, 1, <<>>))

RECURSIVE ObjectLoop(_, _, _)
\* serde_json::from_str::<Value>(&cap[1]) of a [TOOL_CALL] body in braces: Err
\* unless every part is a member whose value is JSON; a later member of the
\* same key replaces the earlier one
ObjectLoop(body, i, map) ==
    IF i > Len(body) THEN [ok |-> TRUE, value |-> JsonObject(map)]
    ELSE IF body[i].kind = "member" /\ from_str_value(body[i].value).ok
    THEN ObjectLoop(body, i + 1, Insert(map, body[i].name, from_str_value(body[i].value).value))
    ELSE [ok |-> FALSE, value |-> JsonString("")]

\* detect_json_style on one match: `obj.get("name").and_then(|v| v.as_str())`
\* and `obj.get("arguments")` both Some push a call with `args.clone()`
json_calls(body) ==
    LET parsed == ObjectLoop(body, 1, <<>>)
        obj == parsed.value.map
    IN IF /\ parsed.ok
          /\ "name" \in DOMAIN obj
          /\ obj["name"].type = "string"
          /\ "arguments" \in DOMAIN obj
       THEN <<[name |-> obj["name"].text, arguments |-> obj["arguments"]]>>
       ELSE <<>>

\* detect on a text made of one block, tagged ("xml") or in [TOOL_CALL]
\* markers ("bracketed"): ToolCall { name, arguments } per match
detect_block(block) ==
    IF block.kind = "xml"
    THEN <<[name |-> block.name, arguments |-> xml_arguments(block.body)]>>
    ELSE json_calls(block.body)

\* the bodies of tagged blocks: argument elements and text, or one JSON object
XmlBodies ==
    SeqsUpTo(ArgumentParts \cup {TextPart}, MaxBodyParts)
        \cup {<<ObjectPart(SortedKeys(keys))>> : keys \in SUBSET ArgNames}

\* the blocks a model's output can hold
Blocks ==
    [kind : {"xml"}, name : {"read_file", "write_file"}, body : XmlBodies]
        \cup [kind : {"bracketed"}, name : {"none"}, body : SeqsUpTo(MemberParts, MaxBodyParts)]

\* no tool in hand
NoSample == [pc |-> "idle", tool |-> [name |-> "none", properties |-> {}, required |-> {}],
             block |-> [kind |-> "plain", name |-> "none", body |-> <<>>], calls |-> <<>>]

SampleIdle == sample = NoSample

\* a tool of the registry, before build_tool_info reaches it
SampleInit == \E tool \in SampleTools : sample = [NoSample EXCEPT !.pc = "tool", !.tool = tool]

\* one block of the model's output, before process_tool_calls reaches it
BlockInit == \E block \in Blocks : sample = [NoSample EXCEPT !.pc = "block", !.block = block]

\* build_tool_info: `ChatSession::build_tool_sample_block(tool)`
BuildSample ==
    /\ sample.pc = "tool"
    /\ sample' = [sample EXCEPT !.pc = "block", !.block = build_tool_sample_block(sample.tool)]
    /\ UNCHANGED <<rest_vars, allocation, cut, conversion, registry, stream>>

\* the sample block given back to ToolCallDetector::detect
DetectSample ==
    /\ sample.pc = "block"
    /\ sample' = [sample EXCEPT !.pc = "detected", !.calls = detect_block(sample.block)]
    /\ UNCHANGED <<rest_vars, allocation, cut, conversion, registry, stream>>

\* truncate_files_to_budget on the token counts of one file list

\* no file list in hand
NoAllocation == [pc |-> "idle", original_tokens |-> <<>>, budget_tokens |-> 0,
                 allocations |-> <<>>]

AllocationIdle == allocation = NoAllocation

\* the token estimates of up to MaxBudgetFiles files, and a budget
AllocationInit ==
    \E original_tokens \in SeqsUpTo(0..MaxFileTokens, MaxBudgetFiles),
       budget_tokens \in 0..MaxBudgetTokens :
        allocation = [NoAllocation EXCEPT !.pc = "files", !.original_tokens = original_tokens,
                                          !.budget_tokens = budget_tokens]

\* truncate_files_to_budget: `if files.is_empty()`, `if budget_tokens == 0`,
\* `if total_tokens <= budget_tokens`: nothing is allocated
ReturnEarly ==
    /\ allocation.pc = "files"
    /\ \/ Len(allocation.original_tokens) = 0
       \/ allocation.budget_tokens = 0
       \/ SumSeq(allocation.original_tokens, 1) <= allocation.budget_tokens
    /\ allocation' = [allocation EXCEPT !.pc = "returned"]
    /\ UNCHANGED <<rest_vars, sample, cut, conversion, registry, stream>>

\* truncate_files_to_budget: the floor shares, then the remainder handed out
Allocate ==
    /\ allocation.pc = "files"
    /\ Len(allocation.original_tokens) # 0
    /\ allocation.budget_tokens # 0
    /\ SumSeq(allocation.original_tokens, 1) > allocation.budget_tokens
    /\ allocation' = [allocation EXCEPT
                        !.pc = "allocated",
                        !.allocations = Allocations(allocation.original_tokens,
                                                    allocation.budget_tokens)]
    /\ UNCHANGED <<rest_vars, sample, cut, conversion, registry, stream>>

\* take_head_by_bytes and take_tail_by_bytes on the bytes of one text

\* the UTF-8 encoding of a text given as the byte lengths of its characters:
\* a leading byte, written as the length of its character, then continuation
\* bytes, written 0
RECURSIVE Utf8(_, _, _)
Utf8(text, i, acc) ==
    IF i > Len(text) THEN acc
    ELSE Utf8(text, i + 1, acc \o <<text[i]>> \o [k \in 1..(text[i] - 1) |-> 0])

\* char::len_utf8 of the character whose leading byte this is
len_utf8(byte) == byte

\* str::is_char_boundary
is_char_boundary(bytes, index) ==
    \/ index = 0
    \/ index = Len(bytes)
    \/ (index < Len(bytes) /\ bytes[index + 1] # 0)

RECURSIVE HeadLoop(_, _, _, _)
\* take_head_by_bytes: `for (idx, ch) in text.char_indices()`, returning `end`
HeadLoop(bytes, max_bytes, idx, end) ==
    IF idx >= Len(bytes) THEN end
    ELSE LET next == idx + len_utf8(bytes[idx + 1]) IN
         IF next > max_bytes THEN end
         ELSE HeadLoop(bytes, max_bytes, next, next)

\* take_head_by_bytes: the byte offset where the returned prefix ends
head_end(bytes, max_bytes) ==
    IF max_bytes = 0 \/ Len(bytes) = 0 THEN 0
    ELSE IF Len(bytes) <= max_bytes THEN Len(bytes)
    ELSE HeadLoop(bytes, max_bytes, 0, 0)

RECURSIVE TailLoop(_, _, _)
\* take_tail_by_bytes: `for (idx, _) in text.char_indices()`, returning the
\* first idx at or after start_target; the end of the text when there is none
TailLoop(bytes, start_target, idx) ==
    IF idx >= Len(bytes) THEN Len(bytes)
    ELSE IF idx >= start_target THEN idx
    ELSE TailLoop(bytes, start_target, idx + len_utf8(bytes[idx + 1]))

\* take_tail_by_bytes: the byte offset where the returned suffix starts
tail_start(bytes, max_bytes) ==
    IF max_bytes = 0 \/ Len(bytes) = 0 THEN Len(bytes)
    ELSE IF Len(bytes) <= max_bytes THEN 0
    ELSE TailLoop(bytes, SatSub(Len(bytes), max_bytes), 0)

\* no text in hand
NoCut ==
    [pc |-> "idle", bytes |-> <<>>, max_bytes |-> 0, head_end |-> 0, tail_start |-> 0,
     content |-> <<>>, limit_tokens |-> 0,
     result |-> [head |-> <<>>, marker |-> FALSE, tail |-> <<>>, kept_tokens |-> 0,
                 truncated |-> FALSE]]

CutIdle == cut = NoCut

\* a text of up to MaxChars characters of 1..MaxCharBytes bytes, and a byte budget
CutInit ==
    \E text \in SeqsUpTo(1..MaxCharBytes, MaxChars), max_bytes \in 0..MaxCutBytes :
        cut = [NoCut EXCEPT !.pc = "text", !.bytes = Utf8(text, 1, <<>>),
                            !.max_bytes = max_bytes]

\* truncate_file_content: `take_head_by_bytes(content, head_bytes)`
TakeHead ==
    /\ cut.pc = "text"
    /\ cut' = [cut EXCEPT !.pc = "head", !.head_end = head_end(cut.bytes, cut.max_bytes)]
    /\ UNCHANGED <<rest_vars, sample, allocation, conversion, registry, stream>>

\* truncate_file_content: `take_tail_by_bytes(content, tail_bytes)`
TakeTail ==
    /\ cut.pc = "head"
    /\ cut' = [cut EXCEPT !.pc = "tail", !.tail_start = tail_start(cut.bytes, cut.max_bytes)]
    /\ UNCHANGED <<rest_vars, sample, allocation, conversion, registry, stream>>

\* a file's content: one-byte characters, then three-byte characters, then
\* one-byte characters; and the file's allocation
TruncateInit ==
    \E a \in 0..MaxRun, w \in 0..MaxWideRun, b \in 0..MaxRun, limit_tokens \in 0..MaxLimit :
        cut = [NoCut EXCEPT !.pc = "content", !.content = Ascii(a) \o Wide(w) \o Ascii(b),
                            !.limit_tokens = limit_tokens]

\* truncate_files_to_budget: `truncate_file_content(&file.content, alloc)`
Truncate ==
    /\ cut.pc = "content"
    /\ cut' = [cut EXCEPT !.pc = "truncated",
                          !.result = truncate_file_content(cut.content, cut.limit_tokens)]
    /\ UNCHANGED <<rest_vars, sample, allocation, conversion, registry, stream>>

\* ToolResult::from(CallToolResult)

\* Content: Text { text }, Image { data, mime_type }, Resource { resource }
ContentItems ==
    [type : {"text"}, value : {"Hello", "World"}]
    \cup [type : {"image"}, value : {"image/png"}]
    \cup [type : {"resource"}, value : {"file:///notes.txt"}]

\* CallToolResult::is_error: Option<bool>
IsErrorValues == {"absent", "false", "true"}

\* Option::unwrap_or(false)
unwrap_or_false(is_error) == is_error = "true"

\* `let success = !result.is_error.unwrap_or(false)`
success_of(is_error) == ~unwrap_or_false(is_error)

\* the match on one content item: what is pushed to `output`, ending in "\n"
output_line(item) ==
    CASE item.type = "text" -> [prefix |-> "", body |-> item.value, suffix |-> "\n"]
      [] item.type = "image" -> [prefix |-> "[Image: ", body |-> item.value, suffix |-> "]\n"]
      [] item.type = "resource" ->
            [prefix |-> "[Resource: ", body |-> item.value, suffix |-> "]\n"]

RECURSIVE OutputLoop(_, _, _)
\* `for content in result.content`
OutputLoop(content, i, output) ==
    IF i > Len(content) THEN output
    ELSE OutputLoop(content, i + 1, Append(output, output_line(content[i])))

\* impl From<CallToolResult> for ToolResult
tool_result_from(content, is_error) ==
    [name |-> "", success |-> success_of(is_error), output |-> OutputLoop(content, 1, <<>>)]

\* no result in hand
NoConversion == [pc |-> "idle", content |-> <<>>, is_error |-> "absent",
                 tool_result |-> [name |-> "", success |-> FALSE, output |-> <<>>]]

ConversionIdle == conversion = NoConversion

\* a tools/call result of up to MaxContent content items
ConversionInit ==
    \E content \in SeqsUpTo(ContentItems, MaxContent), is_error \in IsErrorValues :
        conversion = [NoConversion EXCEPT !.pc = "result", !.content = content,
                                          !.is_error = is_error]

\* ServerConnection::call_tool: `ToolResult::from(call_result)`, then the name is set
Convert ==
    /\ conversion.pc = "result"
    /\ conversion' = [conversion EXCEPT
                        !.pc = "converted",
                        !.tool_result = [tool_result_from(conversion.content,
                                                          conversion.is_error)
                                         EXCEPT !.name = "search_docs"]]
    /\ UNCHANGED <<rest_vars, sample, allocation, cut, registry, stream>>

\* McpClient::new has not been called
NoClient == [pc |-> "idle", config |-> <<>>, index |-> 1, servers |-> {}, skipped |-> {},
             tried |-> <<>>, returned |-> "none"]

ClientIdle == registry = NoClient

\* ---- process_text_chunk (llm.rs): the callback's handling of <think> tags ----
\* Text is a sequence of characters, one string per character; the texts
\* explored are ASCII, so a byte offset is a character offset.

OpenTag == <<"<", "t", "h", "i", "n", "k", ">">>

CloseTag == <<"<", "/", "t", "h", "i", "n", "k", ">">>

\* the pieces a model output is put together from
Pieces == {OpenTag, CloseTag, <<"a">>, <<"<">>}

RECURSIVE Concat(_, _)
\* the pieces joined, from the i-th on
Concat(pieces, i) ==
    IF i > Len(pieces) THEN <<>> ELSE pieces[i] \o Concat(pieces, i + 1)

\* the model outputs explored
Streams == { Concat(pieces, 1) : pieces \in SeqsUpTo(Pieces, MaxPieces) }

\* str::starts_with
starts_with(string, prefix) ==
    Len(prefix) =< Len(string) /\ SubSeq(string, 1, Len(prefix)) = prefix

\* str::find: the 1-based position of the first match, 0 for None
find(string, pattern) ==
    LET matches == { i \in 1..(Len(string) + 1) :
                        starts_with(SubSeq(string, i, Len(string)), pattern) }
    IN  IF matches = {} THEN 0 ELSE CHOOSE i \in matches : \A j \in matches : i =< j

\* `current_thinking.trim().is_empty()`
trim_is_empty(string) == \A i \in 1..Len(string) : string[i] = " "

\* `tail_start_idx`: the 1-based position where the last 8 characters start
tail_start_idx(num_chars) == IF num_chars > 8 THEN num_chars - 8 + 1 ELSE 1

\* `is_potential_tag`, under `tail.starts_with("<") || tail.starts_with("</")`
is_potential_tag(tail) ==
    /\ starts_with(tail, <<"<">>) \/ starts_with(tail, <<"<", "/">>)
    /\ starts_with(OpenTag, tail) \/ starts_with(CloseTag, tail)

\* CallbackContext::new
NewContext ==
    [output_buffer |-> <<>>, thinking_buffer |-> <<>>, current_thinking |-> <<>>,
     in_thinking |-> FALSE, partial_tag |-> <<>>, is_finished |-> FALSE]

RECURSIVE ChunkLoop(_, _)
\* `while !remaining.is_empty()`
ChunkLoop(context, remaining) ==
    IF remaining = <<>> THEN context
    ELSE IF context.in_thinking
    THEN LET end_pos == find(remaining, CloseTag)
             thinking == context.current_thinking \o SubSeq(remaining, 1, end_pos - 1)
         IN  IF end_pos # 0
             THEN ChunkLoop([context EXCEPT
                                !.thinking_buffer = IF trim_is_empty(thinking) THEN @
                                                    ELSE Append(@, thinking),
                                !.current_thinking = <<>>,
                                !.in_thinking = FALSE],
                            SubSeq(remaining, end_pos + 8, Len(remaining)))
             ELSE [context EXCEPT !.current_thinking = @ \o remaining]
    ELSE LET start_pos == find(remaining, OpenTag)
             byte_pos == tail_start_idx(Len(remaining))
             tail == SubSeq(remaining, byte_pos, Len(remaining))
         IN  IF start_pos # 0
             THEN ChunkLoop([context EXCEPT
                                !.output_buffer = @ \o SubSeq(remaining, 1, start_pos - 1),
                                !.in_thinking = TRUE],
                            SubSeq(remaining, start_pos + 7, Len(remaining)))
             ELSE IF is_potential_tag(tail)
             THEN [context EXCEPT
                      !.output_buffer = @ \o SubSeq(remaining, 1, byte_pos - 1),
                      !.partial_tag = tail]
             ELSE [context EXCEPT !.output_buffer = @ \o remaining]

\* process_text_chunk: the partial tag kept from the previous chunk comes first
process_text_chunk(context, chunk) ==
    ChunkLoop([context EXCEPT !.partial_tag = <<>>], context.partial_tag \o chunk)

\* no model run
NoStream == [pc |-> "idle", full |-> <<>>, next |-> 1, context |-> NewContext]

StreamIdle == stream = NoStream

\* LLM::run: a fresh context, and a model about to produce one of the outputs
StreamInit ==
    \E full \in Streams : stream = [NoStream EXCEPT !.pc = "running", !.full = full]

\* callback_impl, RkllmRunNormal: the model hands over the next chunk of its
\* output, of any length from one character to all that is left
CallbackNormal ==
    /\ stream.pc = "running"
    /\ \E last \in stream.next..Len(stream.full) :
          stream' = [stream EXCEPT
                        !.next = last + 1,
                        !.context = process_text_chunk(
                                        @, SubSeq(stream.full, stream.next, last))]
    /\ UNCHANGED <<rest_vars, sample, allocation, cut, conversion, registry>>

\* callback_impl, RkllmRunFinish, after the whole output was handed over
CallbackFinish ==
    /\ stream.pc = "running"
    /\ stream.next > Len(stream.full)
    /\ stream' = [stream EXCEPT !.pc = "finished", !.context.is_finished = TRUE]
    /\ UNCHANGED <<rest_vars, sample, allocation, cut, conversion, registry>>

\* every function variable at rest
FunctionsIdle ==
    SampleIdle /\ AllocationIdle /\ CutIdle /\ ConversionIdle /\ ClientIdle /\ StreamIdle

-----------------------------------------------------------------------------
\* ChatSession::run_chat_loop

\* run_chat_loop: the round cap
MaxToolRounds == 3
LimitReached(rounds) == rounds >= MaxToolRounds

\* run_chat_loop: `if blocked_repeat { ...; break; }`
StopsOnBlocked(blocked_repeat) == blocked_repeat

\* run_chat_loop: `if tool_results.is_empty() { break; }`
StopsOnNoResults(results) == Len(results) = 0

\* the environments a tool name can meet in a response: its own when the
\* response calls it, a fixed one otherwise
EnvChoices(calls, name) ==
    IF InSeq(name, calls) THEN EnvFor(name) ELSE { [kind |-> "good", exists |-> FALSE] }

\* the environments of the calls of a response: one answer per tool name
EnvsFor(calls) ==
    { [n \in CallNames |-> IF n = "read_file" THEN r ELSE IF n = "write_file" THEN w ELSE o] :
        r \in EnvChoices(calls, "read_file"), w \in EnvChoices(calls, "write_file"),
        o \in EnvChoices(calls, "search_docs") }

\* the outcomes process_tool_calls can have on the calls of a response
CallRuns(calls, seen, round, tonly, confirm, client) ==
    { process_tool_calls(calls, envs, seen, round, AllowanceFor(round), tonly, confirm, client) :
        envs \in EnvsFor(calls) }

\* the outcomes the handling of the file output operations of a response can have
FileOpRuns(intent, tonly, confirm, client, n, round) ==
    IF ~intent THEN { <<>> }
    ELSE IF tonly THEN { process_file_operations_via_tools(client, n, round) }
    ELSE { process_file_operations(confirm, benvs, n, round) : benvs \in [1..n -> FileOpEnvs] }

NoCounts == [n \in ToolNames |-> 0]

RECURSIVE AddCounts(_, _, _, _)
AddCounts(counts, log, routes, i) ==
    IF i > Len(log) THEN counts
    ELSE AddCounts(IF log[i].route \in routes
                   THEN [counts EXCEPT ![log[i].name] = @ + 1] ELSE counts,
                   log, routes, i + 1)

CallRoutes == {"read_file", "write_file", "registry"}
FileOpRoutes == {"fileop_registry"}

Events == [round : 0..MaxToolRounds, name : ToolNames \cup {"none"},
           route : CallRoutes \cup FileOpRoutes \cup {"fileop_local"},
           server : ServerNames \cup {"none"}, wrote : BOOLEAN, prompted : BOOLEAN,
           exists : BOOLEAN, answer : {"none", "y", "n", "err"},
           outcome : {"none", "ok", "fail", "err"}]

TypeOK ==
    /\ tool_only \in BOOLEAN
    /\ confirm_writes \in BOOLEAN
    /\ mcp_client \in McpClients
    /\ max_context_tokens \in Nat \ {0}
    /\ context_reserved_tokens \in Nat \ {0}
    /\ pc \in {"ready", "run_initial", "loop", "run_followup"}
    /\ user_input \in Nat
    /\ has_file_write_intent \in BOOLEAN
    /\ prompt_tokens \in Nat
    /\ response \in Responses
    /\ tool_rounds \in 0..MaxToolRounds
    /\ seen_tool_calls \subseteq CallNames
    /\ \A i \in 1..Len(tool_results) : tool_results[i] \in [name : CallNames, success : BOOLEAN]
    /\ \A i \in 1..Len(round_log) : round_log[i] \in Events
    /\ exec_calls \in [ToolNames -> Nat]
    /\ exec_fileops \in [ToolNames -> Nat]
    /\ runs \in Nat
    /\ ended \in {"none", "overflow", "inference_error", "blocked", "final",
                  "tool_error", "limit"}

\* max_context_tokens / context_reserved_tokens: the defaults
DefaultMaxContextTokens == 4096
DefaultContextReservedTokens == 256

\* build_tool_info is None without a client or without tools
ToolInfoBytesOf(client, bytes) ==
    IF client.present /\ Len(list_all_tools(client)) > 0 THEN bytes ELSE 0

\* sessions exploring the tool loop: every mode and registry, default budget,
\* user inputs naming no file
ToolSessions ==
    /\ tool_only \in BOOLEAN
    /\ confirm_writes \in BOOLEAN
    /\ mcp_client \in McpClients
    /\ max_context_tokens = DefaultMaxContextTokens
    /\ context_reserved_tokens = DefaultContextReservedTokens
    /\ world = [tool_info_bytes |-> ToolInfoBytesOf(mcp_client, 300), output_bytes |-> 40,
                user_bytes |-> {12}, disk |-> <<>>]

\* sessions exploring the context budget: a small configured context, user
\* inputs naming files of one-byte and of three-byte characters and a missing file
BudgetSessions ==
    /\ tool_only = FALSE
    /\ confirm_writes = FALSE
    /\ mcp_client \in { c \in McpClients : c.present /\ Len(c.order) = 2 /\ c.order[1] = "s1" }
    /\ max_context_tokens = 640
    /\ context_reserved_tokens \in {1, 40, DefaultContextReservedTokens}
    /\ world = [tool_info_bytes |-> ToolInfoBytesOf(mcp_client, 300), output_bytes |-> 40,
                user_bytes |-> {12},
                disk |-> << [path_bytes |-> 5, exists |-> TRUE, content |-> Ascii(60)],
                            [path_bytes |-> 5, exists |-> TRUE, content |-> Wide(20)],
                            [path_bytes |-> 7, exists |-> FALSE, content |-> <<>>] >>]

\* the state of a turn before the first user input
TurnInit ==
    /\ DetectorInit
    /\ pc = "ready"
    /\ user_input = 0
    /\ has_file_write_intent = FALSE
    /\ turn_files = <<>>
    /\ turn_errors = <<>>
    /\ turn_targets = <<>>
    /\ prompt_tokens = 0
    /\ response = NoResponse
    /\ tool_rounds = 0
    /\ seen_tool_calls = {}
    /\ tool_results = <<>>
    /\ round_log = <<>>
    /\ round_blocked = <<>>
    /\ exec_calls = NoCounts
    /\ exec_fileops = NoCounts
    /\ runs = 0
    /\ ended = "none"

\* the tasks that use the transport
Tasks == {"t1", "t2"}

\* no request issued yet
NoRequest == [pc |-> "idle", id |-> 0, elapsed |-> FALSE, result |-> "none", got |-> 0]

\* StdioTransport::with_timeout: `next_id: Arc::new(Mutex::new(1))`
FirstId == 1

\* StdioTransport::next_id: `*id += 1`
IdAfter(id) == id + 1

\* StdioTransport::with_timeout: the transport after construction
TransportInit ==
    /\ next_id = FirstId
    /\ stdout_lock = "none"
    /\ notified = 0
    /\ child_stdin = {}
    /\ child_stdout = <<>>
    /\ child_open = TRUE
    /\ written = 0
    /\ task = [t \in Tasks |-> NoRequest]
    /\ warned = 0
    /\ issued = <<>>
    /\ timed_out = {}
    /\ eof_at = 0

\* no message sent yet on the connection of a configured server
NoConnection ==
    [pc |-> "new", version_match |-> TRUE, tools_cap |-> FALSE, tools |-> <<>>,
     warnings |-> 0, result |-> "none", matched |-> "none", called |-> "none",
     call |-> "none", next_cursor |-> FALSE, cursor_warnings |-> 0]

\* ServerConnection::new before the handshake
ConnInit ==
    /\ conn = NoConnection
    /\ sent = <<>>

\* ChatSession::new: --tool-only requires an MCP client
Init ==
    /\ ToolSessions \/ BudgetSessions
    /\ tool_only => mcp_client.present
    /\ TurnInit
    /\ TransportInit
    /\ ConnInit
    /\ FunctionsIdle

RECURSIVE LoadInputs(_, _, _)
\* run_chat_loop: the input candidates are read; a missing one is an error
LoadInputs(paths, i, acc) ==
    IF i > Len(paths) THEN acc
    ELSE LoadInputs(paths, i + 1,
            IF paths[i].exists
            THEN [acc EXCEPT !.files = Append(@, [path_bytes |-> paths[i].path_bytes,
                                                  content |-> paths[i].content])]
            ELSE [acc EXCEPT !.errors = Append(@, [path_bytes |-> paths[i].path_bytes,
                                                   msg_bytes |-> 14])])

\* run_chat_loop: the detected file paths are split into input candidates
\* (loaded) and output targets (not loaded)
SplitPaths(file_paths, intent, prefers_output_only) ==
    LET n == Len(file_paths)
        input_candidates ==
            IF intent /\ n >= 2 THEN SubSeq(file_paths, 1, 1)
            ELSE IF intent /\ prefers_output_only THEN <<>>
            ELSE file_paths
        output_candidates ==
            IF intent /\ n >= 2 THEN SubSeq(file_paths, 2, n)
            ELSE IF intent /\ prefers_output_only THEN file_paths
            ELSE <<>>
        loaded == LoadInputs(input_candidates, 1, [files |-> <<>>, errors |-> <<>>])
    IN [files |-> loaded.files, errors |-> loaded.errors,
        output_targets |-> [i \in 1..Len(output_candidates) |-> output_candidates[i].path_bytes]]

\* the tool results as build_chat_prompt reads them
ResultSizes(results, output_bytes) ==
    [i \in 1..Len(results) |->
        [name_bytes |-> IF results[i].name = "read_file" THEN 9
                        ELSE IF results[i].name = "write_file" THEN 10 ELSE 11,
         success |-> results[i].success, output_bytes |-> output_bytes]]

\* run_chat_loop: `let mut seen_tool_calls: HashSet<String> = HashSet::new();`
\* inside the turn: nothing of the set of the turn before is kept
seen_at_turn_start(previous) == {}

\* run_chat_loop: a line of user input is read and the initial prompt is built
ReadInput ==
    /\ pc = "ready"
    /\ \E intent \in BOOLEAN, u \in world.user_bytes, k \in 0..Len(world.disk),
          prefers_output_only \in BOOLEAN :
          /\ prefers_output_only => (intent /\ k = 1)
          /\ LET split == SplitPaths(SubSeq(world.disk, 1, k), intent, prefers_output_only)
                 prompt_build ==
                    build_prompt_with_context_limit(
                        max_context_tokens, context_reserved_tokens, u, split.files,
                        split.errors, world.tool_info_bytes, split.output_targets,
                        intent, ~tool_only, <<>>)
             IN /\ user_input' = u
                /\ has_file_write_intent' = intent
                /\ turn_files' = split.files
                /\ turn_errors' = split.errors
                /\ turn_targets' = split.output_targets
                /\ prompt_tokens' = prompt_build.tokens
                /\ IF prompt_build.overflow
                   THEN pc' = "ready" /\ ended' = "overflow"
                   ELSE pc' = "run_initial" /\ ended' = "none"
    /\ response' = NoResponse
    /\ tool_rounds' = 0
    /\ seen_tool_calls' = seen_at_turn_start(seen_tool_calls)
    /\ tool_results' = <<>>
    /\ round_log' = <<>>
    /\ round_blocked' = <<>>
    /\ exec_calls' = NoCounts
    /\ exec_fileops' = NoCounts
    /\ runs' = 0
    /\ UNCHANGED <<session_vars, transport_vars, conn_vars, detector_vars, function_vars>>

\* the responses rkllm.run can return: file output operations are parsed only
\* in a turn with file write intent
ResponsesOf(intent) == { r \in Responses : ~intent => r.blocks = 0 }

\* run_chat_loop: rkllm.run on the initial prompt
RunInitial ==
    /\ pc = "run_initial"
    /\ runs' = runs + 1
    /\ \/ \E r \in ResponsesOf(has_file_write_intent) :
             /\ response' = r
             /\ pc' = "loop"
             /\ ended' = ended
       \/ /\ response' = response
          /\ pc' = "ready"
          /\ ended' = "inference_error"
    /\ tool_rounds' = 0
    /\ seen_tool_calls' = seen_at_turn_start(seen_tool_calls)
    /\ UNCHANGED <<session_vars, input_vars, prompt_tokens,
                   tool_results, round_log, round_blocked, exec_calls, exec_fileops>>
    /\ UNCHANGED <<transport_vars, conn_vars, detector_vars, function_vars>>

\* run_chat_loop: one iteration of the inner loop up to the follow-up prompt
ProcessRound ==
    /\ pc = "loop"
    /\ \E fileops \in FileOpRuns(has_file_write_intent, tool_only, confirm_writes,
                                 mcp_client, response.blocks, tool_rounds),
          r \in CallRuns(response.calls, seen_tool_calls, tool_rounds, tool_only,
                         confirm_writes, mcp_client) :
          LET results == IF r.err THEN <<>> ELSE r.results
              blocked_repeat == IF r.err THEN FALSE ELSE r.blocked_repeat
              followup_build ==
                 build_prompt_with_context_limit(
                     max_context_tokens, context_reserved_tokens, user_input, turn_files,
                     turn_errors, world.tool_info_bytes, turn_targets, has_file_write_intent,
                     ~tool_only, ResultSizes(results, world.output_bytes))
          IN /\ seen_tool_calls' = r.seen
             /\ round_log' = fileops \o r.log
             /\ round_blocked' = r.blocked
             /\ exec_calls' = AddCounts(exec_calls, r.log, CallRoutes, 1)
             /\ exec_fileops' = AddCounts(exec_fileops, fileops, FileOpRoutes, 1)
             /\ tool_results' = results
             /\ IF StopsOnBlocked(blocked_repeat)
                THEN /\ ended' = "blocked"
                     /\ pc' = "ready"
                     /\ tool_rounds' = tool_rounds
                     /\ prompt_tokens' = prompt_tokens
                ELSE IF StopsOnNoResults(results)
                THEN /\ ended' = IF r.err THEN "tool_error" ELSE "final"
                     /\ pc' = "ready"
                     /\ tool_rounds' = tool_rounds
                     /\ prompt_tokens' = prompt_tokens
                ELSE /\ tool_rounds' = tool_rounds + 1
                     /\ IF LimitReached(tool_rounds + 1)
                        THEN /\ ended' = "limit"
                             /\ pc' = "ready"
                             /\ prompt_tokens' = prompt_tokens
                        ELSE /\ prompt_tokens' = followup_build.tokens
                             /\ IF followup_build.overflow
                                THEN ended' = "overflow" /\ pc' = "ready"
                                ELSE ended' = ended /\ pc' = "run_followup"
    /\ UNCHANGED <<session_vars, input_vars, response, runs>>
    /\ UNCHANGED <<transport_vars, conn_vars, detector_vars, function_vars>>

\* run_chat_loop: rkllm.run on the follow-up prompt; the loop iteration ends
\* and its tool_results go out of scope
RunFollowup ==
    /\ pc = "run_followup"
    /\ runs' = runs + 1
    /\ \/ \E r \in ResponsesOf(has_file_write_intent) :
             /\ response' = r
             /\ pc' = "loop"
             /\ ended' = ended
       \/ /\ response' = response
          /\ pc' = "ready"
          /\ ended' = "inference_error"
    /\ tool_results' = <<>>
    /\ round_log' = <<>>
    /\ round_blocked' = <<>>
    /\ UNCHANGED <<session_vars, input_vars, prompt_tokens,
                   tool_rounds, seen_tool_calls, exec_calls, exec_fileops>>
    /\ UNCHANGED <<transport_vars, conn_vars, detector_vars, function_vars>>

Next == ReadInput \/ RunInitial \/ ProcessRound \/ RunFollowup

Spec == Init /\ [][Next]_vars

\* an iteration of the inner loop of run_chat_loop comes to its end: the file
\* operations and the tool calls of the round return, and the loop breaks or
\* builds the follow-up prompt
RoundReturns == pc = "loop" /\ pc' \in {"ready", "run_followup"}

\* every rkllm.run returns and every round returns; the user need not enter
\* another line
TurnFairness ==
    /\ WF_vars(RunInitial)
    /\ WF_pc(RoundReturns)
    /\ WF_vars(RunFollowup)

FairSpec == Spec /\ TurnFairness

-----------------------------------------------------------------------------
\* StdioTransport (mcp/transport/stdio.rs): one transport used by the tasks
\* of Tasks, and its child process.

\* the ids a line of the child can carry; 0 stands for an id that is not a
\* number (RequestId::String, RequestId::Null)
LineIds == 0..MaxRequests

\* the lines the child can write: a response (with or without an error
\* member), a notification (no id member), a line that is not JSON, and a line
\* with an id member that is not a JsonRpcResponse
Lines ==
    [kind : {"response"}, id : LineIds, error : BOOLEAN]
    \cup [kind : {"notification", "malformed", "bad_response"}, id : {0}, error : {FALSE}]

\* read_response: `response.id == expected_id`
MatchesExpected(response_id, expected_id) == response_id = expected_id

\* read_response: what one line read from the child's stdout leads to:
\* "return" (Ok(response)), "parse_error" (Err), "discard" (warning, next
\* line) or "notification" (handle_notification, next line)
read_response(line, expected_id) ==
    IF line.kind = "malformed" THEN "parse_error"
    ELSE IF line.kind = "notification" THEN "notification"
    ELSE IF line.kind = "bad_response" THEN "parse_error"
    ELSE IF MatchesExpected(line.id, expected_id) THEN "return"
    ELSE "discard"

\* StdioTransport::request: `if let Some(error) = &response.error { bail!(...) }`
ResponseResult(line) == IF line.error THEN "rpc_error" ELSE "ok"

\* a params value that holds a string with a line break in it (a file's content)
Params == <<"{", "\"content\":", "\"", "a", "\n", "b", "\"", "}">>

\* serde_json's string escaping of a line break: the two characters \ and n
Escaped(chars) == [i \in 1..Len(chars) |-> IF chars[i] = "\n" THEN "\\n" ELSE chars[i]]

\* serde_json::to_string(&JsonRpcRequest::new(method, params, id)): the
\* members jsonrpc, method, params, id on one line without spaces
request_json(method, id) ==
    <<"{", "\"jsonrpc\":\"2.0\"", "\"method\":", method, "\"params\":">>
        \o Escaped(Params) \o <<"\"id\":", ToString(id), "}">>

\* serde_json::to_string(&JsonRpcNotification::new(method, params)): the
\* members jsonrpc, method, params
notification_json(method) ==
    <<"{", "\"jsonrpc\":\"2.0\"", "\"method\":", method, "\"params\":">>
        \o Escaped(Params) \o <<"}">>

\* `writeln!(stdin, "{}", request_json)` in StdioTransport::request
request_line(method, id) == Append(request_json(method, id), "\n")

\* `writeln!(stdin, "{}", notification_json)` in StdioTransport::notify
notification_line(method) == Append(notification_json(method), "\n")

\* the request of a task ends with this result
Returned(t, result, got) ==
    [task EXCEPT ![t] = [pc |-> "idle", id |-> @.id, elapsed |-> FALSE,
                         result |-> result, got |-> got]]

\* read_response: `if line.is_empty() { bail!("MCP server closed stdout unexpectedly") }`
EndsAtEof(t) == Returned(t, "closed", 0)

\* StdioTransport::request: the id is taken (StdioTransport::next_id, under
\* the next_id mutex) and the request is serialized
StartRequest(t) ==
    /\ task[t].pc = "idle"
    /\ next_id <= MaxRequests
    /\ task' = [task EXCEPT ![t] = [pc |-> "write", id |-> next_id, elapsed |-> FALSE,
                                    result |-> "none", got |-> 0]]
    /\ next_id' = IdAfter(next_id)
    /\ issued' = Append(issued, next_id)
    /\ UNCHANGED <<chat_vars, conn_vars, stdout_lock, notified, child_stdin, child_stdout, child_open, written, warned,
                   timed_out, eof_at>>

\* StdioTransport::request: the request line is written and flushed under the
\* stdin mutex, which is released at once; the timed wait starts. The write
\* can fail once the child has closed its end.
WriteRequest(t) ==
    /\ task[t].pc = "write"
    /\ \/ /\ task' = [task EXCEPT ![t].pc = "lock_stdout"]
          /\ child_stdin' = child_stdin \cup {request_line("tools/call", task[t].id)}
       \/ /\ ~child_open
          /\ task' = Returned(t, "write_error", 0)
          /\ child_stdin' = child_stdin
    /\ UNCHANGED <<chat_vars, conn_vars, next_id, stdout_lock, notified, child_stdout, child_open,
                   written, warned, issued, timed_out, eof_at>>

\* read_response: `self.stdout.lock().await` succeeds; the task enters the
\* blocking read_line
LockStdout(t) ==
    /\ task[t].pc = "lock_stdout"
    /\ stdout_lock = "none"
    /\ stdout_lock' = t
    /\ task' = [task EXCEPT ![t].pc = "read_line"]
    /\ UNCHANGED <<chat_vars, conn_vars, next_id, notified, child_stdin, child_stdout, child_open, written, warned,
                   issued, timed_out, eof_at>>

\* read_response: read_line returns (a line, or end of file), the stdout
\* mutex is released and the line is dealt with
ReadLine(t) ==
    /\ task[t].pc = "read_line"
    /\ stdout_lock = t
    /\ stdout_lock' = "none"
    /\ IF Len(child_stdout) = 0
       THEN /\ ~child_open
            /\ task' = EndsAtEof(t)
            /\ eof_at' = IF eof_at = 0 THEN next_id ELSE eof_at
            /\ UNCHANGED <<child_stdout, warned>>
       ELSE LET line == Head(child_stdout)
                what == read_response(line, task[t].id)
            IN /\ child_stdout' = Tail(child_stdout)
               /\ eof_at' = eof_at
               /\ IF what = "return"
                  THEN /\ task' = Returned(t, ResponseResult(line), line.id)
                       /\ warned' = warned
                  ELSE IF what = "parse_error"
                  THEN /\ task' = Returned(t, "parse_error", 0)
                       /\ warned' = warned
                  ELSE IF what = "discard"
                  THEN /\ task' = [task EXCEPT ![t].pc = "lock_stdout"]
                       /\ warned' = warned + 1
                  ELSE /\ task' = [task EXCEPT ![t].pc = "lock_stdout"]
                       /\ warned' = warned
    /\ UNCHANGED <<chat_vars, conn_vars, next_id, notified, child_stdin, child_open, written, issued, timed_out>>

\* tokio::time::timeout around read_response: the deadline is looked at only
\* when the timed future is polled and is pending, which read_response is
\* only while it waits for the stdout mutex that another task holds
TimeoutCanFire(t) ==
    /\ task[t].pc = "lock_stdout"
    /\ stdout_lock # "none"

\* StdioTransport::request: the timed wait ends with Elapsed
Timeout(t) ==
    /\ TimeoutCanFire(t)
    /\ task[t].elapsed
    /\ task' = Returned(t, "timeout", 0)
    /\ timed_out' = timed_out \cup {task[t].id}
    /\ UNCHANGED <<chat_vars, conn_vars, next_id, stdout_lock, notified, child_stdin, child_stdout, child_open,
                   written, warned, issued, eof_at>>

\* request_timeout passes for the timed wait of a task
Tick(t) ==
    /\ task[t].pc \in {"lock_stdout", "read_line"}
    /\ ~task[t].elapsed
    /\ task' = [task EXCEPT ![t].elapsed = TRUE]
    /\ UNCHANGED <<chat_vars, conn_vars, next_id, stdout_lock, notified, child_stdin, child_stdout, child_open,
                   written, warned, issued, timed_out, eof_at>>

\* StdioTransport::notify: the notification line is written and flushed under
\* the stdin mutex
Notify(t) ==
    /\ task[t].pc = "idle"
    /\ notified < MaxNotifies
    /\ notified' = notified + 1
    /\ child_stdin' = child_stdin \cup {notification_line("notifications/initialized")}
    /\ UNCHANGED <<chat_vars, conn_vars, next_id, stdout_lock, child_stdout, child_open, written, task,
                   warned, issued, timed_out, eof_at>>

\* the child writes a line to its stdout
ServerWrite ==
    /\ child_open
    /\ written < MaxLines
    /\ \E line \in Lines : child_stdout' = Append(child_stdout, line)
    /\ written' = written + 1
    /\ UNCHANGED <<chat_vars, conn_vars, next_id, stdout_lock, notified, child_stdin, child_open, task, warned,
                   issued, timed_out, eof_at>>

\* the child closes its stdout
ServerClose ==
    /\ child_open
    /\ child_open' = FALSE
    /\ UNCHANGED <<chat_vars, conn_vars, next_id, stdout_lock, notified, child_stdin, child_stdout, written, task, warned,
                   issued, timed_out, eof_at>>

TransportTypeOK ==
    /\ next_id \in 1..(MaxRequests + 1)
    /\ stdout_lock \in Tasks \cup {"none"}
    /\ notified \in 0..MaxNotifies
    /\ \A line \in child_stdin : Len(line) > 0
    /\ \A i \in 1..Len(child_stdout) : child_stdout[i] \in Lines
    /\ child_open \in BOOLEAN
    /\ written \in 0..MaxLines
    /\ task \in [Tasks -> [pc : {"idle", "write", "lock_stdout", "read_line"},
                           id : 0..MaxRequests, elapsed : BOOLEAN,
                           result : {"none", "ok", "rpc_error", "parse_error", "closed",
                                     "timeout", "write_error"},
                           got : LineIds]]
    /\ warned \in 0..MaxLines
    /\ \A i \in 1..Len(issued) : issued[i] \in 1..MaxRequests
    /\ timed_out \subseteq 1..MaxRequests
    /\ eof_at \in 0..(MaxRequests + 1)

\* a session that takes no turn while the transport is explored
QuietSession == ToolSessions /\ ~tool_only /\ ~confirm_writes /\ ~mcp_client.present

\* everything but the functions' inputs, at rest
Quiet == QuietSession /\ TurnInit /\ TransportInit /\ ConnInit

TransportSpecInit == Quiet /\ FunctionsIdle

TransportNext ==
    \/ \E t \in Tasks :
          \/ StartRequest(t)
          \/ WriteRequest(t)
          \/ LockStdout(t)
          \/ ReadLine(t)
          \/ Timeout(t)
          \/ Tick(t)
          \/ Notify(t)
    \/ ServerWrite
    \/ ServerClose

TransportSpec == TransportSpecInit /\ [][TransportNext]_vars

\* the scheduling of the tasks: a task that can take a step is run, and time passes
TransportFairness ==
    \A t \in Tasks :
        /\ WF_vars(WriteRequest(t) \/ LockStdout(t) \/ ReadLine(t) \/ Timeout(t))
        /\ WF_vars(Tick(t))

TransportFairSpec == TransportSpec /\ TransportFairness

-----------------------------------------------------------------------------
\* ServerConnection and McpClient (mcp/client.rs): the handshake with one
\* configured server and the tool calls on its connection. The connection is
\* the only user of its transport, so a request is taken as one step: the
\* lines it reads from the child's stdout until it returns.

\* the lines one request reads before it returns or meets the end of file
Replies == SeqsUpTo(Lines, MaxLines)

RECURSIVE RequestLoop(_, _, _)
\* the loop of read_response over the lines read, and the promotion of an
\* error member by request: the result of the request and the member
\* ("plain" for result, "error" for error) of the response that matched
RequestLoop(lines, i, id) ==
    IF i > Len(lines) THEN [result |-> "closed", matched |-> "none"]
    ELSE LET what == read_response(lines[i], id) IN
         IF what = "return"
         THEN [result |-> ResponseResult(lines[i]),
               matched |-> IF lines[i].error THEN "error" ELSE "plain"]
         ELSE IF what = "parse_error"
         THEN [result |-> "parse_error", matched |-> "none"]
         ELSE RequestLoop(lines, i + 1, id)

\* StdioTransport::request with the given id: the write can fail once the
\* child has closed its end
request(wrote, lines, id) ==
    IF ~wrote THEN [result |-> "write_error", matched |-> "none"]
    ELSE RequestLoop(lines, 1, id)

\* what the result member of a response holds: a value of the expected type,
\* nothing (`result` missing), or a value serde cannot read as that type
Payloads == {"good", "no_result", "bad_result"}

\* the tool lists a tools/list response can carry
ToolLists == { <<>>, <<"search_docs">>, <<"search_docs", "save_note">> }

\* the request of a method returned Ok and its result was parsed
Parsed(r, payload) == r.result = "ok" /\ payload = "good"

\* ServerConnection::new: a protocol version that differs is warned about only
VersionAccepted(version_match) == TRUE

\* ServerConnection::new: `if connection.capabilities.tools.is_some()`
ListsTools(tools_cap) == tools_cap

\* refresh_tools: `if let Some(cursor) = list_result.next_cursor { eprintln!(..) }`
WarnsOnCursor(next_cursor) == next_cursor

\* a request is written: its method is recorded and its id taken
Sends(method) ==
    /\ sent' = Append(sent, method)
    /\ next_id' = IdAfter(next_id)
    /\ issued' = Append(issued, next_id)

\* ServerConnection::new: the initialize request, the parsing of its result and
\* the check of the protocol version
ConnInitialize ==
    /\ conn.pc = "new"
    /\ next_id <= MaxRequests
    /\ Sends("initialize")
    /\ \E wrote \in BOOLEAN, lines \in Replies, payload \in Payloads,
          version_match \in BOOLEAN, tools_cap \in BOOLEAN :
          /\ wrote \/ ~child_open
          /\ child_stdin' = IF wrote THEN child_stdin \cup {request_line("initialize", next_id)}
                            ELSE child_stdin
          /\ LET r == request(wrote, lines, next_id) IN
             /\ r.result # "ok" => (payload = "good" /\ version_match /\ ~tools_cap)
             /\ payload # "good" => (version_match /\ ~tools_cap)
             /\ conn' = IF Parsed(r, payload) /\ VersionAccepted(version_match)
                        THEN [conn EXCEPT !.pc = "initialized",
                                          !.version_match = version_match,
                                          !.tools_cap = tools_cap,
                                          !.warnings = IF version_match THEN @ ELSE @ + 1,
                                          !.result = r.result, !.matched = r.matched]
                        ELSE [conn EXCEPT !.pc = "failed",
                                          !.version_match = version_match,
                                          !.warnings = IF Parsed(r, payload) /\ ~version_match
                                                       THEN @ + 1 ELSE @,
                                          !.result = r.result, !.matched = r.matched]
    /\ UNCHANGED <<chat_vars, stdout_lock, notified, child_stdout, child_open, written, task,
                   warned, timed_out, eof_at>>

\* ServerConnection::new: the notifications/initialized notification
ConnNotifyInitialized ==
    /\ conn.pc = "initialized"
    /\ sent' = Append(sent, "notifications/initialized")
    /\ \E wrote \in BOOLEAN :
          /\ wrote \/ ~child_open
          /\ child_stdin' = IF wrote
                            THEN child_stdin \cup {notification_line("notifications/initialized")}
                            ELSE child_stdin
          /\ conn' = [conn EXCEPT !.pc = IF wrote THEN "notified" ELSE "failed"]
    /\ notified' = notified + 1
    /\ UNCHANGED <<chat_vars, next_id, stdout_lock, child_stdout, child_open, written, task,
                   warned, issued, timed_out, eof_at>>

\* ServerConnection::new: refresh_tools when the server has the tools
\* capability; the connection is returned and McpClient::new registers it
ConnListTools ==
    /\ conn.pc = "notified"
    /\ IF ListsTools(conn.tools_cap)
       THEN /\ next_id <= MaxRequests
            /\ Sends("tools/list")
            /\ \E wrote \in BOOLEAN, lines \in Replies, payload \in Payloads,
                  tools \in ToolLists, next_cursor \in BOOLEAN :
                  /\ wrote \/ ~child_open
                  /\ child_stdin' = IF wrote
                                    THEN child_stdin \cup {request_line("tools/list", next_id)}
                                    ELSE child_stdin
                  /\ LET r == request(wrote, lines, next_id) IN
                     /\ ~Parsed(r, payload) => (tools = <<>> /\ ~next_cursor)
                     /\ r.result # "ok" => payload = "good"
                     /\ conn' = [conn EXCEPT
                                   !.pc = IF Parsed(r, payload) THEN "registered" ELSE "failed",
                                   !.tools = tools,
                                   !.next_cursor = next_cursor,
                                   !.cursor_warnings = IF WarnsOnCursor(next_cursor)
                                                       THEN @ + 1 ELSE @,
                                   !.result = r.result, !.matched = r.matched]
       ELSE /\ conn' = [conn EXCEPT !.pc = "registered"]
            /\ UNCHANGED <<sent, next_id, issued, child_stdin>>
    /\ UNCHANGED <<chat_vars, stdout_lock, notified, child_stdout, child_open, written, task,
                   warned, timed_out, eof_at>>

\* the McpClient that holds the one registered connection
ClientOf(c) ==
    [present |-> TRUE, order |-> <<"s1">>, tools |-> [sv \in ServerNames |->
                                                        IF sv = "s1" THEN c.tools ELSE <<>>]]

\* what the tools/call request and the parsing of its result come to for
\* McpClient::call_tool: a result without is_error, one with is_error, or Err
CallEnv(r, payload, is_error) ==
    [kind |-> IF ~Parsed(r, payload) THEN "err" ELSE IF is_error THEN "bad" ELSE "good",
     exists |-> FALSE]

\* McpClient::call_tool on the registered connection: tools/call is sent when
\* the cached tool list holds the name
ConnCallTool ==
    /\ conn.pc = "registered"
    /\ \E name \in {"search_docs", "save_note"} :
          IF find_server_for_tool(ClientOf(conn), name) = "none"
          THEN /\ conn' = [conn EXCEPT !.called = name, !.call = call_tool(ClientOf(conn), name,
                                                          [kind |-> "good", exists |-> FALSE]).result,
                                        !.result = "none", !.matched = "none"]
               /\ UNCHANGED <<sent, next_id, issued, child_stdin>>
          ELSE /\ next_id <= MaxRequests
               /\ Sends("tools/call")
               /\ \E wrote \in BOOLEAN, lines \in Replies, payload \in Payloads,
                     is_error \in BOOLEAN :
                     /\ wrote \/ ~child_open
                     /\ child_stdin' = IF wrote
                                       THEN child_stdin \cup {request_line("tools/call", next_id)}
                                       ELSE child_stdin
                     /\ LET r == request(wrote, lines, next_id) IN
                        /\ ~Parsed(r, payload) => ~is_error
                        /\ r.result # "ok" => payload = "good"
                        /\ conn' = [conn EXCEPT
                                      !.called = name,
                                      !.call = call_tool(ClientOf(conn), name,
                                                         CallEnv(r, payload, is_error)).result,
                                      !.result = r.result, !.matched = r.matched]
    /\ UNCHANGED <<chat_vars, stdout_lock, notified, child_stdout, child_open, written, task,
                   warned, timed_out, eof_at>>

ConnTypeOK ==
    /\ conn \in [pc : {"new", "initialized", "notified", "registered", "failed"},
                 version_match : BOOLEAN, tools_cap : BOOLEAN, tools : ToolLists,
                 warnings : 0..1,
                 result : {"none", "ok", "rpc_error", "parse_error", "closed", "write_error"},
                 matched : {"none", "plain", "error"},
                 called : {"none", "search_docs", "save_note"},
                 call : {"none", "ok", "fail", "err"},
                 next_cursor : BOOLEAN, cursor_warnings : 0..1]
    /\ \A i \in 1..Len(sent) :
          sent[i] \in {"initialize", "notifications/initialized", "tools/list", "tools/call"}

ConnectionNext ==
    \/ ConnInitialize
    \/ ConnNotifyInitialized
    \/ ConnListTools
    \/ ConnCallTool
    \/ ServerClose

ConnectionSpec == TransportSpecInit /\ [][ConnectionNext]_vars

\* the detector alone, on every text of up to MaxSegments parts
DetectorNext == Emit \/ Detect

DetectorSpec == TransportSpecInit /\ [][DetectorNext]_vars

\* the sample block of every tool, built and detected
SampleNext == BuildSample \/ DetectSample

SampleSpecInit ==
    /\ Quiet /\ SampleInit /\ AllocationIdle /\ CutIdle /\ ConversionIdle /\ ClientIdle
    /\ StreamIdle

SampleSpec == SampleSpecInit /\ [][SampleNext]_vars

\* truncate_files_to_budget on every file list within the bounds
\* detect on single blocks of either syntax
BlockNext == DetectSample

BlockSpecInit ==
    /\ Quiet /\ BlockInit /\ AllocationIdle /\ CutIdle /\ ConversionIdle /\ ClientIdle
    /\ StreamIdle

BlockSpec == BlockSpecInit /\ [][BlockNext]_vars

AllocationNext == ReturnEarly \/ Allocate

AllocationSpecInit ==
    /\ Quiet /\ AllocationInit /\ SampleIdle /\ CutIdle /\ ConversionIdle /\ ClientIdle
    /\ StreamIdle

AllocationSpec == AllocationSpecInit /\ [][AllocationNext]_vars

\* take_head_by_bytes and take_tail_by_bytes on every text within the bounds
CutNext == TakeHead \/ TakeTail

CutSpecInit ==
    /\ Quiet /\ CutInit /\ SampleIdle /\ AllocationIdle /\ ConversionIdle /\ ClientIdle
    /\ StreamIdle

CutSpec == CutSpecInit /\ [][CutNext]_vars

\* truncate_file_content on every content and allocation within the bounds
TruncateNext == Truncate

TruncateSpecInit ==
    /\ Quiet /\ TruncateInit /\ SampleIdle /\ AllocationIdle /\ ConversionIdle /\ ClientIdle
    /\ StreamIdle

TruncateSpec == TruncateSpecInit /\ [][TruncateNext]_vars

\* ToolResult::from on every tools/call result within the bounds
ConversionNext == Convert

ConversionSpecInit ==
    /\ Quiet /\ ConversionInit /\ SampleIdle /\ AllocationIdle /\ CutIdle /\ ClientIdle
    /\ StreamIdle

ConversionSpec == ConversionSpecInit /\ [][ConversionNext]_vars

\* McpClient::new (mcp/client.rs): one ServerConnection::new per configured
\* server, each on a transport of its own. Server names are the keys of the
\* registry; the configurations explored name each server once.
ClientConfigs ==
    {config \in SeqsUpTo(ServerNames, MaxServers) :
        \A i, j \in 1..Len(config) : i # j => config[i] # config[j]}

ClientInit == \E config \in ClientConfigs : registry = [NoClient EXCEPT !.pc = "next", !.config = config]

\* McpClient::new: `Err(e) => eprintln!(...)`, "Continue with other servers"
AfterFailure(index, n) == index + 1

\* ServerConnection::new up to StdioTransport::new: a transport other than
\* stdio or a command that cannot be spawned is an Err; otherwise the
\* connection starts its handshake on a fresh transport
ClientSpawn ==
    /\ registry.pc = "next"
    /\ registry.index <= Len(registry.config)
    /\ \E spawned \in BOOLEAN :
          IF spawned
          THEN /\ registry' = [registry EXCEPT !.pc = "handshake"]
               /\ conn' = NoConnection
               /\ sent' = <<>>
               /\ next_id' = FirstId
               /\ issued' = <<>>
               /\ notified' = 0
               /\ child_stdin' = {}
               /\ child_open' = TRUE
          ELSE /\ registry' = [registry EXCEPT
                                !.skipped = @ \cup {registry.config[registry.index]},
                                !.tried = Append(@, "no_transport"),
                                !.index = AfterFailure(@, Len(registry.config))]
               /\ UNCHANGED <<conn, sent, next_id, issued, notified, child_stdin, child_open>>
    /\ UNCHANGED <<rest_chat_vars, sample, allocation, cut, conversion, stream, stdout_lock,
                   child_stdout, written, task, warned, timed_out, eof_at>>

\* McpClient::new: `Ok(connection) => servers.insert(name, connection)`
ClientRegister ==
    /\ registry.pc = "handshake"
    /\ conn.pc = "registered"
    /\ registry' = [registry EXCEPT !.pc = "next",
                                !.servers = @ \cup {registry.config[registry.index]},
                                !.tried = Append(@, conn.pc),
                                !.index = @ + 1]
    /\ UNCHANGED <<rest_vars, sample, allocation, cut, conversion, stream>>

\* McpClient::new: `Err(e)` of the handshake is printed and the server is left out
ClientSkip ==
    /\ registry.pc = "handshake"
    /\ conn.pc = "failed"
    /\ registry' = [registry EXCEPT !.pc = "next",
                                !.skipped = @ \cup {registry.config[registry.index]},
                                !.tried = Append(@, conn.pc),
                                !.index = AfterFailure(@, Len(registry.config))]
    /\ UNCHANGED <<rest_vars, sample, allocation, cut, conversion, stream>>

\* McpClient::new: `Ok(Self { servers })`
ClientReturn ==
    /\ registry.pc = "next"
    /\ registry.index > Len(registry.config)
    /\ registry' = [registry EXCEPT !.pc = "done", !.returned = "ok"]
    /\ UNCHANGED <<rest_vars, sample, allocation, cut, conversion, stream>>

\* the handshake of the server in hand
ClientHandshake ==
    /\ registry.pc = "handshake"
    /\ ConnInitialize \/ ConnNotifyInitialized \/ ConnListTools

ClientTypeOK ==
    /\ registry.pc \in {"idle", "next", "handshake", "done"}
    /\ registry.config \in ClientConfigs
    /\ registry.index \in 1..(MaxServers + 1)
    /\ registry.servers \subseteq ServerNames
    /\ registry.skipped \subseteq ServerNames
    /\ \A i \in 1..Len(registry.tried) : registry.tried[i] \in {"no_transport", "failed", "registered"}
    /\ registry.returned \in {"none", "ok"}

ClientNext ==
    \/ ClientSpawn
    \/ ClientHandshake
    \/ ClientRegister
    \/ ClientSkip
    \/ ClientReturn
    \/ (registry.pc = "handshake" /\ ServerClose)

ClientSpecInit ==
    /\ Quiet /\ ClientInit /\ SampleIdle /\ AllocationIdle /\ CutIdle /\ ConversionIdle
    /\ StreamIdle

ClientSpec == ClientSpecInit /\ [][ClientNext]_vars

\* process_text_chunk on every output within the bounds, in every chunking
StreamNext == CallbackNormal \/ CallbackFinish

StreamSpecInit ==
    /\ Quiet /\ StreamInit /\ SampleIdle /\ AllocationIdle /\ CutIdle /\ ConversionIdle
    /\ ClientIdle

StreamSpec == StreamSpecInit /\ [][StreamNext]_vars

-----------------------------------------------------------------------------
\* Properties of the tool loop (run_chat_loop, process_tool_calls).

\* the turn's inner loop ended on an error path
ErrorEnds == {"overflow", "inference_error", "tool_error"}

\* the latest round dispatched a detected call with this name
Dispatched(log, name) ==
    \E i \in 1..Len(log) : log[i].route \in CallRoutes /\ log[i].name = name

\* the latest round skipped a detected call with this name for this reason
Skipped(blocked, name, why) ==
    \E i \in 1..Len(blocked) : blocked[i].name = name /\ blocked[i].why = why

C2_EndsWithLimitNotice ==
    (pc = "ready" /\ runs > 0 /\ Len(response.calls) > 0 /\ ended \notin ErrorEnds)
        => ended = "limit"

\* C2, amended: a turn invokes the model at most MaxToolRounds times and the
\* processing of a response always has an outcome, so the loop does not run
\* indefinitely; the
\* round cap is never reached; a turn in which every response carries a tool
\* call, and that no error ended, ends with the "[Repeated tool call blocked]"
\* notice.
C2_EndsBlockedWithinThreeRounds ==
    /\ runs <= MaxToolRounds
    /\ tool_rounds < MaxToolRounds
    /\ ended # "limit"
    /\ pc = "loop" =>
          /\ CallRuns(response.calls, seen_tool_calls, tool_rounds, tool_only,
                      confirm_writes, mcp_client) # {}
          /\ FileOpRuns(has_file_write_intent, tool_only, confirm_writes, mcp_client,
                        response.blocks, tool_rounds) # {}
    /\ (pc = "ready" /\ runs > 0 /\ Len(response.calls) > 0 /\ ended \notin ErrorEnds)
          => ended = "blocked"

\* C2: a turn of three responses, each with a tool call, has ended
C2_Witness ==
    pc = "ready" /\ runs = MaxToolRounds /\ Len(response.calls) > 0 /\ ended = "blocked"

C4_WriteFileInRoundOneExecutes ==
    [][(pc = "loop" /\ tool_rounds = 1 /\ InSeq("write_file", response.calls))
          => Dispatched(round_log', "write_file")]_vars

\* C4, amended: a write_file call detected in round 1 is executed by the write
\* handler when write_file was not executed earlier in the turn, and is
\* skipped as a repeat when it was; a search_docs call detected in round 1 is
\* not dispatched and the loop ends with that round.
C4_RoundOneWriteAndSearch ==
    [][(pc = "loop" /\ tool_rounds = 1) =>
         /\ (InSeq("write_file", response.calls) /\ "write_file" \notin seen_tool_calls)
               => Dispatched(round_log', "write_file")
         /\ (InSeq("write_file", response.calls) /\ "write_file" \in seen_tool_calls)
               => /\ ~Dispatched(round_log', "write_file")
                  /\ Skipped(round_blocked', "write_file", "repeat")
                  /\ pc' = "ready"
         /\ InSeq("search_docs", response.calls)
               => /\ ~Dispatched(round_log', "search_docs")
                  /\ pc' = "ready"
                  /\ runs' = runs]_vars

\* C4: round 1 had a write_file call that the write handler executed and a
\* search_docs call that was skipped, and the loop has ended
C4_Witness ==
    /\ \E i \in 1..Len(round_log) :
          /\ round_log[i].round = 1
          /\ round_log[i].route = "write_file"
          /\ round_log[i].wrote
    /\ \E i \in 1..Len(round_blocked) :
          round_blocked[i] = [round |-> 1, name |-> "search_docs", why |-> "allowance"]
    /\ pc = "ready"
    /\ ended = "blocked"

\* C5: when a call of a round is skipped, by the allowance or as a repeat, the
\* loop ends with that round: the follow-up prompt is not built and the model
\* is not invoked again in the turn.
C5_BlockedCallEndsLoop ==
    [][/\ (pc = "loop" /\ Len(round_blocked') > 0)
             => (pc' = "ready" /\ ended' \in {"blocked", "tool_error"}
                 /\ prompt_tokens' = prompt_tokens /\ runs' = runs
                 /\ tool_rounds' = tool_rounds)
       /\ pc = "ready" => runs' = 0]_vars

\* C5: a round executed one call and skipped another, and the loop has ended
C5_Witness ==
    /\ Len(round_blocked) > 0
    /\ Len(tool_results) > 0
    /\ pc = "ready"
    /\ ended = "blocked"

\* C6: a round in which no call is executed ends the loop, as the final
\* answer when the response carries no call at all: the model is not invoked
\* again in the turn.
C6_NoExecutedCallEndsLoop ==
    [][pc = "loop" =>
         /\ Len(tool_results') = 0 => (pc' = "ready" /\ runs' = runs
                                       /\ tool_rounds' = tool_rounds)
         /\ Len(response.calls) = 0 => (Len(tool_results') = 0 /\ ended' = "final")]_vars

\* C6: the answer to a follow-up prompt carried no call and ended the turn
C6_Witness ==
    /\ pc = "ready"
    /\ ended = "final"
    /\ runs = 2
    /\ Len(response.calls) = 0

\* C7: the prompt handed to rkllm.run never has an estimate above the
\* configured maximum; when the measurement of a prompt reports overflow the
\* model is not invoked and the turn has ended.
C7_PromptWithinMax ==
    /\ pc \in {"run_initial", "run_followup"} => prompt_tokens <= max_context_tokens
    /\ ended = "overflow" => pc = "ready"

\* C7: the follow-up prompt of a turn with input files measured above the
\* maximum although its base prompt did not, and the turn ended without the
\* second model call
C7_Witness ==
    /\ ended = "overflow"
    /\ pc = "ready"
    /\ runs = 1
    /\ Len(turn_files) > 0
    /\ prompt_tokens < max_context_tokens

-----------------------------------------------------------------------------
\* Properties of the transport (StdioTransport).

\* the request of a task has been written and has not returned
InFlight(t) == task[t].pc \in {"lock_stdout", "read_line"}

\* C8: request returns a response only when the id of the line read equals
\* the id of the request; a response line with another id is counted as a
\* warning and dropped, a notification line is handled, and in both cases the
\* task goes on to read the next line.
C8_OnlyOwnResponse ==
    [][\A t \in Tasks :
         /\ task'[t].result \in {"ok", "rpc_error"} => task'[t].got = task'[t].id
         /\ (stdout_lock = t /\ stdout_lock' = "none" /\ Len(child_stdout) > 0) =>
               LET line == Head(child_stdout) IN
               /\ (task'[t].result \in {"ok", "rpc_error"})
                     <=> (line.kind = "response" /\ line.id = task[t].id)
               /\ (line.kind = "response" /\ line.id # task[t].id)
                     => (task'[t] = [task[t] EXCEPT !.pc = "lock_stdout"]
                         /\ warned' = warned + 1)
               /\ line.kind = "notification"
                     => (task'[t] = [task[t] EXCEPT !.pc = "lock_stdout"]
                         /\ warned' = warned)]_vars

\* C8: a task dropped a response with another id, read on, and returned the
\* response with the id of its request
C8_Witness ==
    \E t \in Tasks :
        /\ task[t].result = "ok"
        /\ task[t].got = task[t].id
        /\ warned = 1
        /\ written = 2
        /\ \A u \in Tasks \ {t} : task[u].pc = "idle" /\ task[u].id = 0

\* C9 as stated: requests on one transport are sequential: at no time are two
\* requests written and waiting for their responses.
C9_OneRequestInFlight ==
    Cardinality({ t \in Tasks : InFlight(t) }) <= 1

\* C10 as stated: a request that has been written ends (with its response, a
\* failure or the timeout) unless the child goes on writing lines or closes
\* its stdout; it does not wait forever on a child that stays silent.
C10_RequestEnds ==
    \A t \in Tasks :
        InFlight(t) ~> (~InFlight(t) \/ Len(child_stdout) > 0 \/ ~child_open)

\* C11: the timeout of a request ends that request only: the child keeps
\* running with its stdout open, no line is consumed, no lock and no id is
\* touched, and the task can issue requests again; a request that returns a
\* response returns the one with its own id, never the response to a request
\* that timed out.
C11_UsableAfterTimeout ==
    [][\A t \in Tasks :
         /\ (task[t].pc = "lock_stdout" /\ task'[t].result = "timeout") =>
               /\ task'[t].pc = "idle"
               /\ child_open' = child_open
               /\ child_stdout' = child_stdout
               /\ stdout_lock' = stdout_lock
               /\ next_id' = next_id
         /\ task'[t].result = "ok" =>
               /\ task'[t].got = task'[t].id
               /\ task'[t].got \notin timed_out']_vars

\* C11: a request of a task timed out, the late response to it was read and
\* dropped, and a later request of the same task returned its own response
C11_Witness ==
    \E t \in Tasks :
        /\ task[t].result = "ok"
        /\ task[t].got = task[t].id
        /\ \E i \in timed_out : i < task[t].id
        /\ warned = 1
        /\ child_open

\* C12: the ids a transport issues start at 1 and are strictly increasing, so
\* no two requests, issued one after the other or concurrently, get the same
\* id, and the requests outstanding at any time have different ids.
C12_IdsIncrease ==
    /\ Len(issued) > 0 => issued[1] = 1
    /\ \A i, j \in 1..Len(issued) : i < j => issued[i] < issued[j]
    /\ \A t, u \in Tasks :
          (t # u /\ task[t].pc # "idle" /\ task[u].pc # "idle") => task[t].id # task[u].id
    /\ \A t \in Tasks : task[t].pc # "idle" => InSeq(task[t].id, issued)

\* C12: two tasks took their ids before either wrote its request
C12_Witness ==
    /\ Len(issued) >= 2
    /\ \A t \in Tasks : task[t].pc = "write"

\* the results of a request that failed
Failures == {"rpc_error", "parse_error", "closed", "timeout", "write_error"}

\* C13: a read_line that meets the end of the child's stdout fails its request
\* with "closed stdout", and every request issued on the transport after that
\* fails as well: none of them returns a response.
C13_EofIsFatal ==
    [][\A t \in Tasks :
         /\ (stdout_lock = t /\ stdout_lock' = "none" /\ Len(child_stdout) = 0)
               => (task'[t].pc = "idle" /\ task'[t].result = "closed")
         /\ (eof_at' > 0 /\ task'[t].id >= eof_at' /\ task'[t].pc = "idle")
               => task'[t].result \in Failures \ {"rpc_error", "parse_error"}]_vars

\* C13: a request issued after a request had met the end of file failed on
\* the end of file too
C13_Witness ==
    \E t \in Tasks :
        /\ eof_at > 0
        /\ task[t].id >= eof_at
        /\ task[t].pc = "idle"
        /\ task[t].result = "closed"

-----------------------------------------------------------------------------
\* Properties of the connection (ServerConnection, McpClient).

\* the methods that are requests
RequestMethods == {"initialize", "tools/list", "tools/call"}

\* the message written by this step
LastSent(messages) == messages[Len(messages)]

\* C14: when the response that matches a request carries an error member,
\* request fails with the JSON-RPC error and never returns the response as a
\* success: the initialize and tools/list requests of the handshake fail the
\* connection, and a tools/call request makes call_tool return Err.
C14_ErrorResponseFails ==
    [][(Len(sent') > Len(sent) /\ LastSent(sent') \in RequestMethods) =>
         /\ conn'.result = "ok" => conn'.matched = "plain"
         /\ conn'.matched = "error" =>
               /\ conn'.result = "rpc_error"
               /\ LastSent(sent') \in {"initialize", "tools/list"} => conn'.pc = "failed"
               /\ LastSent(sent') = "tools/call" => conn'.call = "err"]_vars

\* C14: a tools/call request on a registered connection was answered with an
\* error response and call_tool returned Err
C14_Witness ==
    /\ Len(sent) > 0
    /\ LastSent(sent) = "tools/call"
    /\ conn.pc = "registered"
    /\ conn.matched = "error"
    /\ conn.result = "rpc_error"
    /\ conn.call = "err"

\* C15: the messages written to a server are ordered: initialize is the first
\* message and is written once; notifications/initialized is written second,
\* after initialize returned a response that was parsed; tools/list is written
\* third and only to a server with the tools capability; tools/call is written
\* only on a registered connection, after those messages.
C15_HandshakeOrder ==
    [][Len(sent') > Len(sent) =>
         /\ LastSent(sent') = "initialize" => sent = <<>>
         /\ LastSent(sent') = "notifications/initialized" =>
               /\ sent = <<"initialize">>
               /\ conn.pc = "initialized"
               /\ conn.result = "ok"
               /\ conn.matched = "plain"
         /\ LastSent(sent') = "tools/list" =>
               /\ sent = <<"initialize", "notifications/initialized">>
               /\ conn.tools_cap
         /\ LastSent(sent') = "tools/call" =>
               /\ conn.pc = "registered"
               /\ conn.tools_cap
               /\ SubSeq(sent, 1, 3) =
                     <<"initialize", "notifications/initialized", "tools/list">>]_vars

\* C15: the whole handshake and then a tools/call were written
C15_Witness ==
    sent = <<"initialize", "notifications/initialized", "tools/list", "tools/call">>

\* C16: an initialize response with another protocol version is accepted: the
\* handshake goes on as with the same version and one warning is printed; the
\* warning is printed for no other reason.
C16_VersionMismatchWarnsOnly ==
    [][conn.pc = "new" =>
         /\ conn'.warnings = 1 => (conn'.pc = "initialized" /\ ~conn'.version_match)
         /\ (conn'.pc = "initialized" /\ ~conn'.version_match) => conn'.warnings = 1]_vars

\* C16: a server with another protocol version was sent initialized, had its
\* tools listed and its connection registered, with one warning
C16_Witness ==
    /\ ~conn.version_match
    /\ conn.warnings = 1
    /\ conn.pc = "registered"
    /\ Len(conn.tools) > 0
    /\ sent = <<"initialize", "notifications/initialized", "tools/list">>

-----------------------------------------------------------------------------
\* Properties of the handling of the calls of one response.

\* the latest round sent a detected call to McpClient::call_tool and got Err
RegistryErr(log) ==
    \E i \in 1..Len(log) : log[i].route = "registry" /\ log[i].outcome = "err"

C18_EveryCallYieldsResult ==
    [][pc = "loop" =>
         Len(tool_results') + Len(round_blocked') = Len(response.calls)]_vars

\* C19: a detected call named read_file or write_file is handled by the local
\* handler of that name and is never sent to an MCP server, whatever tools the
\* connected servers advertise.
C19_BuiltinsStayLocal ==
    \A i \in 1..Len(round_log) :
        (round_log[i].route \in CallRoutes /\ round_log[i].name \in {"read_file", "write_file"})
            => (round_log[i].route = round_log[i].name /\ round_log[i].server = "none")

\* C19: a server advertises write_file, and a detected write_file call was
\* executed by the local write handler
C19_Witness ==
    /\ find_server_for_tool(mcp_client, "write_file") # "none"
    /\ \E i \in 1..Len(round_log) :
          /\ round_log[i].name = "write_file"
          /\ round_log[i].route = "write_file"
          /\ round_log[i].server = "none"
          /\ round_log[i].wrote

-----------------------------------------------------------------------------
\* Properties of the detector (ToolCallDetector).

RECURSIVE BlocksInOrder(_, _, _)
\* the names of the blocks of a text, in the order in which they occur
BlocksInOrder(segments, i, acc) ==
    IF i > Len(segments) THEN acc
    ELSE BlocksInOrder(segments, i + 1,
                       IF segments[i].kind \in {"json", "xml"}
                       THEN Append(acc, segments[i].name) ELSE acc)

\* every block of the text is well formed
WellFormed(segments) ==
    \A i \in 1..Len(segments) : segments[i].kind \in {"plain", "json", "xml"}

\* C20 as stated: on a text whose blocks are well formed, of either style and
\* in any mix, detect returns one ToolCall per block in the order in which the
\* blocks occur in the text, and the empty list when the text has no block.
C20_OnePerBlockInTextOrder ==
    (detected.done /\ WellFormed(output_text))
        => detected.calls = BlocksInOrder(output_text, 1, <<>>)

RECURSIVE BlocksOfStyle(_, _, _, _)
\* the names of the well-formed blocks of one style, in the order of the text
BlocksOfStyle(segments, kind, i, acc) ==
    IF i > Len(segments) THEN acc
    ELSE BlocksOfStyle(segments, kind, i + 1,
                       IF segments[i].kind = kind THEN Append(acc, segments[i].name) ELSE acc)

\* C21 as stated: a bracketed block whose body is not valid JSON, or is not an
\* object with a name and arguments, contributes no ToolCall and takes none
\* away: detect returns the ToolCalls of the well-formed blocks of the text
\* (here: of a text whose tagged blocks are all closed).
C21_MalformedSkippedAlone ==
    (detected.done /\ \A i \in 1..Len(output_text) : output_text[i].kind # "xml_unclosed")
        => detected.calls = BlocksOfStyle(output_text, "json", 1, <<>>)
                            \o BlocksOfStyle(output_text, "xml", 1, <<>>)


\* C22 as stated: for every tool, detect on the tool's sample block returns one
\* call with the tool's name whose argument keys include every required key of the tool.
C22_SampleRoundTrip ==
    sample.pc = "detected"
        => /\ Len(sample.calls) = 1
           /\ sample.calls[1].name = sample.tool.name
           /\ sample.tool.required \subseteq DOMAIN sample.calls[1].arguments.map

\* C23: when the files' total token count exceeds a positive budget, the
\* allocations of truncate_files_to_budget sum to exactly the budget.
C23_AllocationsSumToBudget ==
    allocation.pc = "allocated"
        => SumSeq(allocation.allocations, 1) = allocation.budget_tokens

\* C23 witness: the floor shares lose tokens to rounding and the leftover is
\* handed out to more than one file
C23_Witness ==
    /\ allocation.pc = "allocated"
    /\ SumSeq(FloorShares(allocation.original_tokens, allocation.budget_tokens), 1) + 2
           <= allocation.budget_tokens
    /\ allocation.allocations
           # FloorShares(allocation.original_tokens, allocation.budget_tokens)

\* C24: the prefix take_head_by_bytes returns and the suffix take_tail_by_bytes
\* returns hold at most max_bytes bytes and are cut on a character boundary.
C24_CutOnCharBoundary ==
    /\ cut.pc \in {"head", "tail"}
        => /\ cut.head_end <= cut.max_bytes
           /\ is_char_boundary(cut.bytes, cut.head_end)
    /\ cut.pc = "tail"
        => /\ Len(cut.bytes) - cut.tail_start <= cut.max_bytes
           /\ is_char_boundary(cut.bytes, cut.tail_start)

\* C24 witness: the byte budget falls inside a multi-byte character at both
\* ends, and both functions return less than the budget
C24_Witness ==
    /\ cut.pc = "tail"
    /\ cut.max_bytes < Len(cut.bytes)
    /\ ~is_char_boundary(cut.bytes, cut.max_bytes)
    /\ ~is_char_boundary(cut.bytes, Len(cut.bytes) - cut.max_bytes)
    /\ cut.head_end < cut.max_bytes
    /\ cut.head_end > 0
    /\ Len(cut.bytes) - cut.tail_start < cut.max_bytes
    /\ cut.tail_start < Len(cut.bytes)

\* C25: the ToolResult of a tools/call result has success true exactly when
\* isError is absent or false, and its output holds, in the order of the content
\* items, the text of each text item and a placeholder line for each image or
\* resource item.
C25_ResultConversion ==
    conversion.pc = "converted"
        => /\ conversion.tool_result.success <=> conversion.is_error \in {"absent", "false"}
           /\ Len(conversion.tool_result.output) = Len(conversion.content)
           /\ \A i \in 1..Len(conversion.content) :
                LET item == conversion.content[i]
                    line == conversion.tool_result.output[i]
                IN /\ line.body = item.value
                   /\ item.type = "text" => line.prefix = ""
                   /\ item.type = "image" => line.prefix = "[Image: "
                   /\ item.type = "resource" => line.prefix = "[Resource: "

\* C25 witness: a result flagged as an error with a text, an image and a
\* resource item is converted
C25_Witness ==
    /\ conversion.pc = "converted"
    /\ conversion.is_error = "true"
    /\ ~conversion.tool_result.success
    /\ {conversion.content[i].type : i \in 1..Len(conversion.content)}
           = {"text", "image", "resource"}
    /\ Len(conversion.tool_result.output) = MaxContent

\* C27: McpClient::new returns Ok after it has tried every configured server;
\* the registry holds exactly the servers whose spawn and handshake succeeded,
\* and every other server was skipped.
C27_FailedServersSkipped ==
    /\ registry.returned = "ok" <=> registry.pc = "done"
    /\ registry.pc = "done"
        => /\ Len(registry.tried) = Len(registry.config)
           /\ \A i \in 1..Len(registry.config) :
                /\ registry.tried[i] = "registered" <=> registry.config[i] \in registry.servers
                /\ registry.tried[i] # "registered" <=> registry.config[i] \in registry.skipped
    /\ registry.servers \cap registry.skipped = {}

\* C27 witness: the first server's handshake fails, the second connects, and
\* the constructor returns
C27_Witness ==
    /\ registry.pc = "done"
    /\ registry.returned = "ok"
    /\ registry.tried = <<"failed", "registered">>
    /\ registry.servers = {registry.config[2]}
    /\ registry.skipped = {registry.config[1]}

\* the line holds this piece of text
Holds(line, piece) == \E i \in 1..Len(line) : line[i] = piece

\* C26: every message written to the child's stdin is one line, its only line
\* break being the one that ends it; a notification has no id member, and
\* writing it takes no id from the counter and starts no wait for a reply.
C26_OneLinePerMessage ==
    /\ [](\A line \in child_stdin :
            /\ line[Len(line)] = "\n"
            /\ \A i \in 1..(Len(line) - 1) : line[i] # "\n"
            /\ Holds(line, "notifications/initialized") => ~Holds(line, "\"id\":"))
    /\ [][notified' # notified
            => /\ next_id' = next_id
               /\ issued' = issued
               /\ task' = task
               /\ stdout_lock' = stdout_lock
               /\ child_stdout' = child_stdout]_vars

\* C26 witness: a request and a notification, both with a line break inside a
\* string of their params, have been written
C26_Witness ==
    /\ notified > 0
    /\ \E line \in child_stdin : Holds(line, "\"id\":") /\ Holds(line, "\\n")
    /\ \E line \in child_stdin : Holds(line, "notifications/initialized") /\ Holds(line, "\\n")

\* the number of events of the log that went the given route
RECURSIVE CountRoute(_, _, _)
CountRoute(log, route, i) ==
    IF i > Len(log) THEN 0
    ELSE (IF log[i].route = route THEN 1 ELSE 0) + CountRoute(log, route, i + 1)

C29_WritesOnlyAfterYes ==
    \A i \in 1..Len(round_log) :
        LET ev == round_log[i] IN
        /\ (ev.wrote /\ (confirm_writes \/ ev.exists)) => ev.answer = "y"
        /\ ev.answer = "n" => (~ev.wrote /\ (ev.route = "write_file" => ev.outcome = "fail"))
        /\ ev.wrote => ev.route \in {"write_file", "fileop_local"}

\* C29 witness: without --confirm-writes, one round overwrites an existing
\* file from a file output block after "y" and skips the write_file call on
\* another existing file after "n"
C29_Witness ==
    /\ ~confirm_writes
    /\ \E i \in 1..Len(round_log) :
          /\ round_log[i].route = "fileop_local"
          /\ round_log[i].wrote /\ round_log[i].exists /\ round_log[i].answer = "y"
    /\ \E i \in 1..Len(round_log) :
          /\ round_log[i].route = "write_file"
          /\ round_log[i].exists /\ round_log[i].answer = "n" /\ ~round_log[i].wrote
          /\ round_log[i].outcome = "fail"

\* C30 as stated: when two requests are in flight on the transport and the
\* child answers them, no task reads and discards the response that carries
\* the id of the other task's request.
C30_NoResponseTakenFromOther ==
    [][warned' = warned + 1
          => ~\E u \in Tasks :
                /\ InFlight(u)
                /\ Head(child_stdout).kind = "response"
                /\ Head(child_stdout).id = task[u].id]_vars

\* C31 as stated: the call of a tagged block whose body is valid JSON as a whole
\* has the body's object as its arguments; the call of any other tagged block
\* has the arguments read from the body's argument elements.
C31_XmlBodyParsedWhole ==
    (sample.pc = "detected" /\ sample.block.kind = "xml")
        => sample.calls =
              <<[name |-> sample.block.name,
                 arguments |-> IF from_str(sample.block.body).ok
                               THEN from_str(sample.block.body).value
                               ELSE xml_arguments(sample.block.body)]>>

\* C32 as stated: the arguments of every ToolCall that detect returns, for a
\* block of either syntax, are a JSON object.
C32_ArgumentsAreObject ==
    sample.pc = "detected"
        => \A i \in 1..Len(sample.calls) : sample.calls[i].arguments.type = "object"

RECURSIVE CountResults(_, _, _)
\* the number of the results that carry the given tool name
CountResults(results, name, i) ==
    IF i > Len(results) THEN 0
    ELSE (IF results[i].name = name THEN 1 ELSE 0) + CountResults(results, name, i + 1)

\* C33 as stated: the results handed to the follow-up prompt hold a result for
\* every tool call executed so far in the turn, those of the earlier rounds
\* included.
C33_FollowupHasAllResults ==
    pc = "run_followup"
        => \A name \in ToolNames : CountResults(tool_results, name, 1) >= exec_calls[name]

\* the connected servers whose cached tool list holds the name
Holders(client, name) ==
    {client.order[i] : i \in {j \in 1..Len(client.order) : InSeq(name, client.tools[client.order[j]])}}

\* C34: a call through the registry goes to one server, and that server's
\* cached tool list holds the name; when no list holds the name no server gets
\* a request and the call fails.
C34_CallGoesToAHolder ==
    \A i \in 1..Len(round_log) :
        round_log[i].route \in {"registry", "fileop_registry"}
            => IF Holders(mcp_client, round_log[i].name) = {}
               THEN round_log[i].server = "none" /\ round_log[i].outcome = "err"
               ELSE round_log[i].server \in Holders(mcp_client, round_log[i].name)

\* a file operation sent to the one server that has a write tool, and in the
\* same round a call of a tool that no server has
C34_Witness ==
    \E i, j \in 1..Len(round_log) :
        /\ round_log[i].route = "fileop_registry"
        /\ round_log[i].server = "s2"
        /\ round_log[j].route = "registry"
        /\ round_log[j].server = "none"
        /\ round_log[j].outcome = "err"

RECURSIVE CountSent(_, _, _)
\* the number of the messages sent that have the given method
CountSent(messages, method, i) ==
    IF i > Len(messages) THEN 0
    ELSE (IF messages[i] = method THEN 1 ELSE 0) + CountSent(messages, method, i + 1)

\* C35: a connection sends tools/list at most once; when the response carries a
\* pagination cursor one warning is logged and the one request stays the only
\* one; and once the connection is constructed neither its tool list changes
\* nor is tools/list sent again, whatever is called or received on it.
C35_ToolsListedOnce ==
    /\ [](CountSent(sent, "tools/list", 1) <= 1)
    /\ [](conn.next_cursor
            => /\ conn.cursor_warnings = 1
               /\ CountSent(sent, "tools/list", 1) = 1)
    /\ [][conn.pc = "registered"
            => /\ conn'.tools = conn.tools
               /\ CountSent(sent', "tools/list", 1) = CountSent(sent, "tools/list", 1)]_vars

\* a tool was called on a connection whose tools/list response carried a cursor
C35_Witness ==
    /\ conn.pc = "registered"
    /\ conn.next_cursor
    /\ Len(conn.tools) > 0
    /\ conn.called = "search_docs"
    /\ conn.call = "ok"
    /\ CountSent(sent, "tools/call", 1) = 1

\* C36 as stated, for an allocation of at least one token: whenever
\* truncate_file_content shortens a content, the text it returns is a prefix of
\* the content, the marker, and a suffix of the content, the prefix within 2/3
\* and the suffix within 1/3 of the bytes kept.
C36_HeadMarkerTail ==
    (cut.pc = "truncated" /\ cut.limit_tokens >= 1 /\ cut.result.truncated)
        => LET keep_bytes == 3 * cut.limit_tokens - MarkerBytes
               n == Len(cut.content)
           IN /\ cut.result.marker
              /\ cut.result.head = SubSeq(cut.content, 1, Len(cut.result.head))
              /\ cut.result.tail = SubSeq(cut.content, n - Len(cut.result.tail) + 1, n)
              /\ Bytes(cut.result.head) <= (2 * keep_bytes) \div 3
              /\ Bytes(cut.result.tail) <= keep_bytes - (2 * keep_bytes) \div 3

\* C39: for an allocation of at least one token, the text truncate_file_content
\* returns, marker included, has at most 3 x limit bytes, and the kept token
\* estimate it reports does not exceed the allocation.
C39_WithinAllocation ==
    (cut.pc = "truncated" /\ cut.limit_tokens >= 1)
        => /\ TruncatedBytes(cut.result) <= 3 * cut.limit_tokens
           /\ cut.result.kept_tokens <= cut.limit_tokens
           /\ cut.result.kept_tokens = estimate_tokens(TruncatedBytes(cut.result))

\* a content cut with the marker whose text fills the allocation to the byte
C39_Witness ==
    /\ cut.pc = "truncated"
    /\ cut.limit_tokens >= 1
    /\ cut.result.truncated
    /\ cut.result.marker
    /\ Len(cut.result.head) > 0
    /\ Len(cut.result.tail) > 0
    /\ TruncatedBytes(cut.result) = 3 * cut.limit_tokens
    /\ cut.result.kept_tokens = cut.limit_tokens

\* C37: the first round of every turn runs with round index 0, allowance All
\* and an empty set of seen names, whatever the turn before left behind; the
\* input of a new turn resets both, and the first call of a turn's first
\* response is never blocked.
C37_RoundStateResetEachTurn ==
    /\ []((pc = "loop" /\ runs = 1)
            => /\ tool_rounds = 0
               /\ seen_tool_calls = {}
               /\ AllowanceFor(tool_rounds) = "All")
    /\ [][(pc = "ready" /\ pc' # "ready")
            => (tool_rounds' = 0 /\ seen_tool_calls' = {})]_vars
    /\ [][(pc = "loop" /\ runs = 1 /\ Len(response.calls) > 0)
            => /\ response.calls[1] \in seen_tool_calls'
               /\ \A i \in 1..Len(round_blocked') :
                     round_blocked'[i].name # response.calls[1]
                        \/ \E j \in 2..Len(response.calls) : response.calls[j] = response.calls[1]]_vars

\* a turn has ended blocked after two rounds with names in the seen set, and the
\* next line of input starts a turn from there
C37_Witness ==
    /\ pc = "ready"
    /\ tool_rounds = 2
    /\ {"read_file", "write_file"} \subseteq seen_tool_calls
    /\ ended = "blocked"

OneChunk == process_text_chunk(NewContext, stream.full)

\* C40: when a model run has finished, the output text collected and the
\* thinking sections collected are those of the same output handed over as a
\* single chunk, however the output was split into chunks, a split inside a
\* <think> or </think> tag included.
C40_ChunkingDoesNotMatter ==
    stream.pc = "finished" =>
        /\ stream.context.output_buffer = OneChunk.output_buffer
        /\ stream.context.thinking_buffer = OneChunk.thinking_buffer

====
